---- MODULE Spec2Model ----
(***************************************************************************)
(* Model of the SQLite repository of LisitraMpandray                       *)
(* (src-tauri/src/db/repo.rs): three tables (members, contributions,       *)
(* year_summaries), the statements each Repository method executes, and    *)
(* the transactions that group them.                                       *)
(*                                                                         *)
(* Decimal amounts are exact; they are represented as integer numbers of   *)
(* hundredths ("1" is 100, "1.50" is 150).  Option<T> is a sequence of      *)
(* length 0 (None) or 1 (Some).  Text that the code builds (notes) is a    *)
(* sequence of one-character strings.                                      *)
(***************************************************************************)
EXTENDS Integers, Sequences, FiniteSets, TLC

VARIABLES
    members,         \* rows of table members
    contributions,   \* rows of table contributions
    year_summaries,  \* rows of table year_summaries
    now,             \* the clock chrono::Utc::now() reads
    last,            \* outcome of the most recent call that returned
    conns            \* pool connections: the call each one is executing

vars == <<members, contributions, year_summaries, now, last, conns>>

\* ---------------------------------------------------------------- bounds
MaxMemberId  == 2
MaxContribId == 2
NumConns     == 2

MaxDays      == 3        \* days the clock counts before it stops advancing
CurrentYear == 2026      \* calendar year of chrono::Utc::now()

\* ---------------------------------------------------------------- Option
None == <<>>
Some(v) == <<v>>
IsSome(o) == Len(o) = 1
Unwrap(o) == o[1]

\* ---------------------------------------------------------------- inputs
\* MemberInput records a caller may send.
MemberInputs ==
    { [card_number |-> "C001", full_name |-> "Alice", address |-> Some("Tana"),
       phone |-> None, job |-> None, gender |-> "M", member_type |-> "Communiant"],
      [card_number |-> "C002", full_name |-> "Bob", address |-> None,
       phone |-> Some("034"), job |-> Some("Mpamboly"), gender |-> "F",
       member_type |-> "Cathekomen"],
      [card_number |-> "  ", full_name |-> "Carol", address |-> None,
       phone |-> None, job |-> None, gender |-> "M", member_type |-> "Communiant"],
      [card_number |-> "C003", full_name |-> "", address |-> None,
       phone |-> None, job |-> None, gender |-> "F", member_type |-> "Cathekomen"] }

AmountInputs == {"-1", " 1.50 ", "abc"}
DateInputs   == {"2024-03-15", "2025-06-01", "15-03-2024"}
TypeInputs   == {"Communiant", "Cathekomen", "Autre"}
NoteInputs   == {None, Some(<<"ok">>)}
Years        == {2024, 2025}

\* MemberInput records whose gender or member_type is outside the enumerations
UnlistedMemberInputs ==
    { [card_number |-> "C004", full_name |-> "Dera", address |-> None,
       phone |-> None, job |-> None, gender |-> "X", member_type |-> "Communiant"],
      [card_number |-> "C005", full_name |-> "Eva", address |-> None,
       phone |-> None, job |-> None, gender |-> "F", member_type |-> "Autre"] }

\* the text as it is, not trimmed
TrimNothing(s) == s

\* str::trim on the strings the inputs use
Trim(s) ==
    CASE s = "  "  -> ""
      [] s = " 1.50 " -> "1.50"
      [] OTHER     -> s

Invalid == -999999

\* Decimal::from_str, in hundredths; Invalid when the text is not a number
DecimalFromStr(s) ==
    CASE s = "0"    -> 0
      [] s = "1"    -> 100
      [] s = "1.50" -> 150
      [] s = "-1"   -> -100
      [] OTHER      -> Invalid

\* NaiveDate::parse_from_str(_, "%Y-%m-%d").map(|d| d.year())
ParseYear(s) ==
    CASE s = "2024-03-15" -> 2024
      [] s = "2025-06-01" -> 2025
      [] s = "2025-01-10" -> 2025
      [] OTHER            -> Invalid

\* ---------------------------------------------------------------- store
\* The committed database, as one value.
Store == [members |-> members, contributions |-> contributions,
          year_summaries |-> year_summaries]

EmptyStore == [members |-> {}, contributions |-> {}, year_summaries |-> {}]

MaxOf(S) == CHOOSE x \in S : \A y \in S : y <= x

\* rowid assigned by INSERT ... RETURNING id
NextRowId(rows) == IF rows = {} THEN 1 ELSE MaxOf({r.id : r \in rows}) + 1

RECURSIVE SumAmounts(_)
\* .fold(Decimal::ZERO, |acc, d| acc + d) over the selected rows
SumAmounts(rows) ==
    IF rows = {} THEN 0
    ELSE LET r == CHOOSE x \in rows : TRUE
         IN r.amount + SumAmounts(rows \ {r})

\* SELECT amount FROM contributions WHERE recorded_year = ?
ContributionsOfYear(s, year) == {c \in s.contributions : c.recorded_year = year}

SummaryRows(s, year) == {r \in s.year_summaries : r.year = year}

\* the upsert written as INSERT OR REPLACE: the row is rebuilt from (year, total)
UpsertTotalReplace(s, year, total) ==
    [s EXCEPT !.year_summaries =
         {r \in @ : r.year # year}
             \cup {[year |-> year, total |-> total, closed_at |-> None, note |-> None]}]

\* the upsert written as DO UPDATE SET total = total + excluded.total
UpsertTotalAdds(s, year, total) ==
    IF SummaryRows(s, year) = {}
    THEN [s EXCEPT !.year_summaries =
             @ \cup {[year |-> year, total |-> total, closed_at |-> None, note |-> None]}]
    ELSE [s EXCEPT !.year_summaries =
             {IF r.year = year THEN [r EXCEPT !.total = @ + total] ELSE r : r \in @}]

\* the upsert written as ON CONFLICT(year) DO NOTHING
UpsertTotalDoNothing(s, year, total) ==
    IF SummaryRows(s, year) = {}
    THEN [s EXCEPT !.year_summaries =
             @ \cup {[year |-> year, total |-> total, closed_at |-> None, note |-> None]}]
    ELSE s

\* INSERT INTO year_summaries (year, total) VALUES (?, ?)
\* ON CONFLICT(year) DO UPDATE SET total = excluded.total
UpsertTotal(s, year, total) ==
    IF SummaryRows(s, year) = {}
    THEN [s EXCEPT !.year_summaries =
             @ \cup {[year |-> year, total |-> total, closed_at |-> None, note |-> None]}]
    ELSE [s EXCEPT !.year_summaries =
             {IF r.year = year THEN [r EXCEPT !.total = total] ELSE r : r \in @}]

\* a refresh that deletes the summary row of a year left with no contribution
RefreshYearTotalDropsEmpty(s, year) ==
    IF ContributionsOfYear(s, year) = {}
    THEN [s EXCEPT !.year_summaries = {r \in @ : r.year # year}]
    ELSE UpsertTotal(s, year, SumAmounts(ContributionsOfYear(s, year)))

\* refresh_year_total_tx / refresh_year_total: SELECT, fold, UPSERT
RefreshYearTotal(s, year) ==
    UpsertTotal(s, year, SumAmounts(ContributionsOfYear(s, year)))

\* SELECT ... FROM members WHERE id = ? finds a row
MemberExists(s, id) == \E m \in s.members : m.id = id

\* the table created without the foreign key
ForeignKeyOff(s, member_id) == TRUE

\* foreign key contributions.member_id -> members.id, enforced (foreign_keys(true))
ForeignKeyMember(s, member_id) == \E m \in s.members : m.id = member_id

\* the table created without UNIQUE(card_number)
CardTakenNever(s, card, exceptId) == FALSE

\* UNIQUE(card_number)
CardTaken(s, card, exceptId) ==
    \E m \in s.members : m.card_number = card /\ m.id # exceptId

\* members.gender and members.member_type are NOT NULL with no CHECK on their
\* values: no text bound to them makes the INSERT or the UPDATE fail
ColumnCheckFails(input) == FALSE

\* INSERT INTO members ... RETURNING id
InsertMember(s, input, t) ==
    [s EXCEPT !.members = @ \cup
        {[id |-> NextRowId(s.members), card_number |-> input.card_number,
          full_name |-> input.full_name, address |-> input.address,
          phone |-> input.phone, job |-> input.job, gender |-> input.gender,
          member_type |-> input.member_type, created_at |-> t]}]

\* the UPDATE with member_type left out of its SET list
UpdateMemberKeepsType(s, id, input) ==
    [s EXCEPT !.members =
        {IF m.id = id
         THEN [m EXCEPT !.card_number = input.card_number, !.full_name = input.full_name,
                        !.address = input.address, !.phone = input.phone,
                        !.job = input.job, !.gender = input.gender]
         ELSE m : m \in @}]

\* UPDATE members SET card_number = ?, ... WHERE id = ?
UpdateMember(s, id, input) ==
    [s EXCEPT !.members =
        {IF m.id = id
         THEN [m EXCEPT !.card_number = input.card_number, !.full_name = input.full_name,
                        !.address = input.address, !.phone = input.phone,
                        !.job = input.job, !.gender = input.gender,
                        !.member_type = input.member_type]
         ELSE m : m \in @}]

\* the delete with no cascade to contributions
DeleteMemberNoCascade(s, id) == [s EXCEPT !.members = {m \in @ : m.id # id}]

\* DELETE FROM members WHERE id = ?  (contributions go by ON DELETE CASCADE)
DeleteMember(s, id) ==
    [s EXCEPT !.members = {m \in @ : m.id # id},
              !.contributions = {c \in @ : c.member_id # id}]

\* the UPDATE with its WHERE id IN (...) left out
TransferMembersAllRows(s, ids, new_type) ==
    [s EXCEPT !.members = {[m EXCEPT !.member_type = new_type] : m \in @}]

\* UPDATE members SET member_type = ? WHERE id IN (...)
TransferMembers(s, ids, new_type) ==
    [s EXCEPT !.members =
        {IF m.id \in ids THEN [m EXCEPT !.member_type = new_type] ELSE m : m \in @}]

\* the number of ids bound to the statement
TransferIdsBound(s, ids) == Cardinality(ids)

\* result.rows_affected() of that UPDATE
TransferRowsAffected(s, ids) == Cardinality({m \in s.members : m.id \in ids})

\* INSERT INTO contributions (...) VALUES (...) RETURNING id
InsertContribution(s, input, amount, recorded_year) ==
    [s EXCEPT !.contributions = @ \cup
        {[id |-> NextRowId(s.contributions), member_id |-> input.member_id,
          payment_date |-> input.payment_date, period |-> input.period,
          amount |-> amount, recorded_year |-> recorded_year]}]

\* DELETE FROM contributions WHERE id = ?
DeleteContribution(s, id) ==
    [s EXCEPT !.contributions = {c \in @ : c.id # id}]

\* the update with its WHERE clause left out
SetClosedAllRows(s, year, closed_at, note) ==
    [s EXCEPT !.year_summaries = {[r EXCEPT !.closed_at = closed_at, !.note = note] : r \in @}]

\* UPDATE year_summaries SET closed_at = ?, note = ? WHERE year = ?
SetClosed(s, year, closed_at, note) ==
    [s EXCEPT !.year_summaries =
        {IF r.year = year THEN [r EXCEPT !.closed_at = closed_at, !.note = note] ELSE r
         : r \in @}]

\* get_year_summary: SELECT ... FROM year_summaries WHERE year = ? (fetch_optional)
GetYearSummary(s, year) ==
    IF SummaryRows(s, year) = {} THEN None
    ELSE Some(CHOOSE r \in SummaryRows(s, year) : TRUE)

\* ---------------------------------------------------------------- handlers
\* Each Repository method as a function of the store it runs on: the store it
\* leaves, the kind of result, and the value returned.
Outcome(s, status, ret, n) == [store |-> s, status |-> status, ret |-> ret, n |-> n]

\* sqlx::Transaction dropped without commit: the store the call started from
Rollback(s0) == s0

\* Err(AppError::Db(e)): `?` on a statement that returned the sqlx::Error e
\* ("RowNotFound", or the constraint a Database error reports)
DbErr(s, e) == Outcome(s, "Db", Some(e), 0)

\* Repository::create_member
create_member(s, input, t) ==
    IF Trim(input.card_number) = "" THEN Outcome(s, "Validation", None, 0)
    ELSE IF Trim(input.full_name) = "" THEN Outcome(s, "Validation", None, 0)
    ELSE IF CardTaken(s, input.card_number, 0) THEN DbErr(s, "UniqueViolation")
    ELSE IF ColumnCheckFails(input) THEN DbErr(s, "CheckViolation")
    ELSE LET s1 == InsertMember(s, input, t)
             id == NextRowId(s.members)
         IN Outcome(s1, "Ok", Some(CHOOSE m \in s1.members : m.id = id), 0)

\* Repository::get_member (fetch_one: RowNotFound when absent)
get_member(s, id) ==
    IF MemberExists(s, id)
    THEN Outcome(s, "Ok", Some(CHOOSE m \in s.members : m.id = id), 0)
    ELSE DbErr(s, "RowNotFound")

\* Repository::update_member
update_member(s, id, input) ==
    IF Trim(input.card_number) = "" THEN Outcome(s, "Validation", None, 0)
    ELSE IF Trim(input.full_name) = "" THEN Outcome(s, "Validation", None, 0)
    ELSE IF MemberExists(s, id) /\ CardTaken(s, input.card_number, id)
         THEN DbErr(s, "UniqueViolation")
    ELSE IF MemberExists(s, id) /\ ColumnCheckFails(input) THEN DbErr(s, "CheckViolation")
    ELSE get_member(UpdateMember(s, id, input), id)

\* delete_member that reports a DELETE which affected no row
delete_memberChecked(s, id) ==
    IF MemberExists(s, id) THEN Outcome(DeleteMember(s, id), "Ok", None, 0)
    ELSE DbErr(s, "RowNotFound")

\* Repository::delete_member
delete_member(s, id) == Outcome(DeleteMember(s, id), "Ok", None, 0)

\* transfer_members with the category check ahead of the empty-list return
transfer_membersValidatesFirst(s, ids, new_type) ==
    IF new_type # "Communiant" /\ new_type # "Cathekomen"
    THEN Outcome(s, "Validation", None, 0)
    ELSE IF ids = {} THEN Outcome(s, "Ok", None, 0)
    ELSE Outcome(TransferMembers(s, ids, new_type), "Ok", None, TransferRowsAffected(s, ids))

\* transfer_members with no category check
transfer_membersAnyType(s, ids, new_type) ==
    IF ids = {} THEN Outcome(s, "Ok", None, 0)
    ELSE Outcome(TransferMembers(s, ids, new_type), "Ok", None, TransferRowsAffected(s, ids))

\* Repository::transfer_members
transfer_members(s, ids, new_type) ==
    IF ids = {} THEN Outcome(s, "Ok", None, 0)
    ELSE IF new_type # "Communiant" /\ new_type # "Cathekomen"
         THEN Outcome(s, "Validation", None, 0)
    ELSE Outcome(TransferMembers(s, ids, new_type), "Ok", None, TransferRowsAffected(s, ids))

\* create_contribution with no test of the amount's sign
create_contributionAnySign(s, input) ==
    LET amount        == DecimalFromStr(Trim(input.amount))
        recorded_year == ParseYear(input.payment_date)
    IN  IF amount = Invalid THEN Outcome(s, "Validation", None, 0)
        ELSE IF recorded_year = Invalid THEN Outcome(s, "Validation", None, 0)
        ELSE IF ~ForeignKeyMember(s, input.member_id)
             THEN DbErr(Rollback(s), "ForeignKeyViolation")
        ELSE LET s1 == InsertContribution(s, input, amount, recorded_year)
                 s2 == RefreshYearTotal(s1, recorded_year)
                 id == NextRowId(s.contributions)
             IN Outcome(s2, "Ok", Some(CHOOSE c \in s1.contributions : c.id = id), 0)

\* Repository::create_contribution
create_contribution(s, input) ==
    LET amount        == DecimalFromStr(Trim(input.amount))
        recorded_year == ParseYear(input.payment_date)
    IN  IF amount = Invalid THEN Outcome(s, "Validation", None, 0)
        ELSE IF amount < 0 THEN Outcome(s, "Validation", None, 0)
        ELSE IF recorded_year = Invalid THEN Outcome(s, "Validation", None, 0)
        ELSE IF ~ForeignKeyMember(s, input.member_id)
             THEN DbErr(Rollback(s), "ForeignKeyViolation")
        ELSE LET s1 == InsertContribution(s, input, amount, recorded_year)
                 s2 == RefreshYearTotal(s1, recorded_year)
                 id == NextRowId(s.contributions)
             IN Outcome(s2, "Ok", Some(CHOOSE c \in s1.contributions : c.id = id), 0)

\* delete_contribution whose lookup uses fetch_optional and returns Ok on no row
delete_contributionLenient(s, id) ==
    IF ~\E c \in s.contributions : c.id = id THEN Outcome(Rollback(s), "Ok", None, 0)
    ELSE LET year == (CHOOSE c \in s.contributions : c.id = id).recorded_year
             s1   == DeleteContribution(s, id)
             s2   == RefreshYearTotal(s1, year)
         IN Outcome(s2, "Ok", None, 0)

\* Repository::delete_contribution
delete_contribution(s, id) ==
    IF ~\E c \in s.contributions : c.id = id THEN DbErr(Rollback(s), "RowNotFound")
    ELSE LET year == (CHOOSE c \in s.contributions : c.id = id).recorded_year
             s1   == DeleteContribution(s, id)
             s2   == RefreshYearTotal(s1, year)
         IN Outcome(s2, "Ok", None, 0)

\* close_year without the recompute of the total
close_yearNoRefresh(s, year, note, t) ==
    LET s2  == SetClosed(s, year, Some(t), note)
        row == GetYearSummary(s2, year)
    IN  IF IsSome(row) THEN Outcome(s2, "Ok", row, 0)
        ELSE Outcome(s2, "Validation", None, 0)

\* close_year that leaves the closed_at and note of a year already closed
close_yearKeepsClosure(s, year, note, t) ==
    LET s1  == RefreshYearTotal(s, year)
        s2  == IF \E r \in SummaryRows(s1, year) : IsSome(r.closed_at) THEN s1
               ELSE SetClosed(s1, year, Some(t), note)
        row == GetYearSummary(s2, year)
    IN  IF IsSome(row) THEN Outcome(s2, "Ok", row, 0)
        ELSE Outcome(s2, "Validation", None, 0)

\* Repository::close_year
close_year(s, year, note, t) ==
    LET s1  == RefreshYearTotal(s, year)
        s2  == SetClosed(s1, year, Some(t), note)
        row == GetYearSummary(s2, year)
    IN  IF IsSome(row) THEN Outcome(s2, "Ok", row, 0)
        ELSE Outcome(s2, "Validation", None, 0)

\* reopen_year that makes sure the row exists first, as close_year does
reopen_yearCreatesRow(s, year) ==
    LET s1  == SetClosed(RefreshYearTotal(s, year), year, None, None)
        row == GetYearSummary(s1, year)
    IN  IF IsSome(row) THEN Outcome(s1, "Ok", row, 0)
        ELSE Outcome(s1, "Validation", None, 0)

\* Repository::reopen_year
reopen_year(s, year) ==
    LET s1  == SetClosed(s, year, None, None)
        row == GetYearSummary(s1, year)
    IN  IF IsSome(row) THEN Outcome(s1, "Ok", row, 0)
        ELSE Outcome(s1, "Validation", None, 0)

\* ---------------------------------------------------------------- notes
DigitChars == <<"0", "1", "2", "3", "4", "5", "6", "7", "8", "9">>

RECURSIVE Digits(_)
\* Decimal::to_string of a non-negative whole number
Digits(n) == IF n < 10 THEN <<DigitChars[n + 1]>>
             ELSE Append(Digits(n \div 10), DigitChars[(n % 10) + 1])

\* n.split('.').next(): the integer part of the decimal text
IntegerPart(total) == Digits(total \div 100)

RECURSIVE GroupThousands(_, _)
\* the loop of format_ariary_note over integer_part.chars().enumerate(), from index i
GroupThousands(part, i) ==
    IF i >= Len(part) THEN <<>>
    ELSE (IF i > 0 /\ (Len(part) - i) % 3 = 0 THEN <<" ">> ELSE <<>>)
         \o <<part[i + 1]>> \o GroupThousands(part, i + 1)

\* Repository::format_ariary_note
format_ariary_note(total) == GroupThousands(IntegerPart(total), 0) \o <<" Ariary">>

\* check_and_close_previous_year without the "already closed" return
check_and_close_previous_yearAlways(s, t) ==
    LET prev_year == CurrentYear - 1
        s1    == RefreshYearTotal(s, prev_year)
        row   == GetYearSummary(s1, prev_year)
        total == IF IsSome(row) THEN Unwrap(row).total ELSE 0
        note  == <<"CONTRIBUTIONS de l'annee ">> \o Digits(prev_year)
                   \o <<" / TOTAL : ">> \o format_ariary_note(total)
    IN close_year(s1, prev_year, Some(note), t)

\* ---------------------------------------------------------------- queries
RECURSIVE OrderByYearAsc(_)
\* the rows in ascending order of year
OrderByYearAsc(rows) ==
    IF rows = {} THEN <<>>
    ELSE LET r == CHOOSE x \in rows : \A y \in rows : x.year <= y.year
         IN <<r>> \o OrderByYearAsc(rows \ {r})

RECURSIVE OrderByYearDesc(_)
\* ORDER BY year DESC
OrderByYearDesc(rows) ==
    IF rows = {} THEN <<>>
    ELSE LET r == CHOOSE x \in rows : \A y \in rows : y.year <= x.year
         IN <<r>> \o OrderByYearDesc(rows \ {r})

\* Repository::get_year_summaries
get_year_summaries(s) == Outcome(s, "Ok", Some(OrderByYearDesc(s.year_summaries)), 0)

\* position of a full name in the ascending order of the names the inputs use
NameRank(name) ==
    CASE name = ""      -> 0
      [] name = "Alice" -> 1
      [] name = "Bob"   -> 2
      [] name = "Carol" -> 3
      [] OTHER          -> 4

RECURSIVE OrderByFullName(_)
\* ORDER BY m.full_name ASC
OrderByFullName(rows) ==
    IF rows = {} THEN <<>>
    ELSE LET r == CHOOSE x \in rows :
                      \A y \in rows : NameRank(x.full_name) <= NameRank(y.full_name)
         IN <<r>> \o OrderByFullName(rows \ {r})

\* format!("{:.0}", total): the f64 (here in hundredths) rounded to a whole number,
\* a tie going to the even neighbour
FormatF64NoDecimals(h) ==
    LET whole == h \div 100
        frac  == h % 100
    IN  Digits(IF frac > 50 \/ (frac = 50 /\ whole % 2 = 1) THEN whole + 1 ELSE whole)

\* COALESCE(SUM(CAST(c.amount AS REAL)), 0.0) over the contributions joined to member m
SumOfMember(s, m) == SumAmounts({c \in s.contributions : c.member_id = m.id})

\* one row of the result: the member's columns and the formatted total
MemberWithTotal(s, m) ==
    [id |-> m.id, card_number |-> m.card_number, full_name |-> m.full_name,
     address |-> m.address, phone |-> m.phone, job |-> m.job, gender |-> m.gender,
     member_type |-> m.member_type, created_at |-> m.created_at,
     total_contributions |-> FormatF64NoDecimals(SumOfMember(s, m))]

\* the query with JOIN in place of LEFT JOIN: members with no contribution drop out
get_members_by_type_with_totalInnerJoin(s, member_type) ==
    Outcome(s, "Ok",
            Some(OrderByFullName({MemberWithTotal(s, m) :
                    m \in {x \in s.members :
                              /\ x.member_type = member_type
                              /\ \E c \in s.contributions : c.member_id = x.id}})), 0)

\* Repository::get_members_by_type_with_total
get_members_by_type_with_total(s, member_type) ==
    Outcome(s, "Ok",
            Some(OrderByFullName({MemberWithTotal(s, m) :
                    m \in {x \in s.members : x.member_type = member_type}})), 0)

\* position of a payment_date in the ascending (bytewise) order of the texts stored
DateRank(date) ==
    CASE date = "2024-03-15" -> 1
      [] date = "2025-01-10" -> 2
      [] date = "2025-06-01" -> 3
      [] OTHER               -> 0

\* the lists that hold each of the rows once
ListsOf(rows) ==
    {f \in [1..Cardinality(rows) -> rows] :
        \A i, j \in 1..Cardinality(rows) : i # j => f[i] # f[j]}

\* ORDER BY payment_date DESC: rows of equal date come in either order
OrderByPaymentDateDesc(rows) ==
    {f \in ListsOf(rows) :
        \A i, j \in 1..Len(f) :
            i < j => DateRank(f[i].payment_date) >= DateRank(f[j].payment_date)}

\* ORDER BY c.payment_date ASC: rows of equal date come in either order
OrderByPaymentDateAsc(rows) ==
    {f \in ListsOf(rows) :
        \A i, j \in 1..Len(f) :
            i < j => DateRank(f[i].payment_date) <= DateRank(f[j].payment_date)}

\* Repository::get_contributions_by_year: the results the query can give
get_contributions_by_year(s, year) ==
    {Outcome(s, "Ok", Some(list), 0) :
        list \in OrderByPaymentDateDesc(ContributionsOfYear(s, year))}

\* contributions c JOIN members m ON m.id = c.member_id WHERE c.recorded_year = ?
ContributionsWithMember(s, year) ==
    {[id |-> c.id, member_id |-> c.member_id, member_name |-> m.full_name,
      payment_date |-> c.payment_date, period |-> c.period, amount |-> c.amount,
      recorded_year |-> c.recorded_year] :
        <<c, m>> \in {x \in ContributionsOfYear(s, year) \X s.members :
                         x[2].id = x[1].member_id}}

\* the query with ORDER BY c.payment_date DESC, as get_contributions_by_year has it
get_contributions_by_year_with_memberDesc(s, year) ==
    {Outcome(s, "Ok", Some(list), 0) :
        list \in OrderByPaymentDateDesc(ContributionsWithMember(s, year))}

\* Repository::get_contributions_by_year_with_member: the results the query can give
get_contributions_by_year_with_member(s, year) ==
    {Outcome(s, "Ok", Some(list), 0) :
        list \in OrderByPaymentDateAsc(ContributionsWithMember(s, year))}

\* Repository::check_and_close_previous_year
check_and_close_previous_year(s, t) ==
    LET prev_year == CurrentYear - 1
        existing  == GetYearSummary(s, prev_year)
    IN  IF IsSome(existing) /\ IsSome(Unwrap(existing).closed_at)
        THEN Outcome(s, "Ok", None, 0)
        ELSE LET s1    == RefreshYearTotal(s, prev_year)
                 row   == GetYearSummary(s1, prev_year)
                 total == IF IsSome(row) THEN Unwrap(row).total ELSE 0
                 note  == <<"CONTRIBUTIONS de l'annee ">> \o Digits(prev_year)
                            \o <<" / TOTAL : ">> \o format_ariary_note(total)
             IN close_year(s1, prev_year, Some(note), t)

\* ---------------------------------------------------------------- db.rs
\* The Repository of src-tauri/src/db.rs: the same statements, each executed on
\* the pool (no transaction), written here for calls that run one at a time.

\* db.rs Repository::refresh_year_total
db_rs_refresh_year_total(s, year) ==
    UpsertTotal(s, year, SumAmounts(ContributionsOfYear(s, year)))

\* db.rs Repository::get_member
db_rs_get_member(s, id) ==
    IF \E m \in s.members : m.id = id
    THEN Outcome(s, "Ok", Some(CHOOSE m \in s.members : m.id = id), 0)
    ELSE DbErr(s, "RowNotFound")

\* db.rs Repository::create_member
db_rs_create_member(s, input, t) ==
    IF Trim(input.card_number) = "" THEN Outcome(s, "Validation", None, 0)
    ELSE IF Trim(input.full_name) = "" THEN Outcome(s, "Validation", None, 0)
    ELSE IF CardTaken(s, input.card_number, 0) THEN DbErr(s, "UniqueViolation")
    ELSE IF ColumnCheckFails(input) THEN DbErr(s, "CheckViolation")
    ELSE LET id == NextRowId(s.members)
         IN Outcome(InsertMember(s, input, t), "Ok",
                    Some([id |-> id, card_number |-> input.card_number,
                          full_name |-> input.full_name, address |-> input.address,
                          phone |-> input.phone, job |-> input.job,
                          gender |-> input.gender, member_type |-> input.member_type,
                          created_at |-> t]), 0)

\* db.rs Repository::update_member
db_rs_update_member(s, id, input) ==
    IF Trim(input.card_number) = "" THEN Outcome(s, "Validation", None, 0)
    ELSE IF Trim(input.full_name) = "" THEN Outcome(s, "Validation", None, 0)
    ELSE IF (\E m \in s.members : m.id = id) /\ CardTaken(s, input.card_number, id)
         THEN DbErr(s, "UniqueViolation")
    ELSE IF (\E m \in s.members : m.id = id) /\ ColumnCheckFails(input)
         THEN DbErr(s, "CheckViolation")
    ELSE db_rs_get_member(UpdateMember(s, id, input), id)

\* db.rs Repository::delete_member
db_rs_delete_member(s, id) == Outcome(DeleteMember(s, id), "Ok", None, 0)

\* db.rs create_contribution without its call of refresh_year_total
db_rs_create_contributionNoRefresh(s, input) ==
    LET amount        == DecimalFromStr(Trim(input.amount))
        recorded_year == ParseYear(input.payment_date)
    IN  IF amount = Invalid THEN Outcome(s, "Validation", None, 0)
        ELSE IF amount < 0 THEN Outcome(s, "Validation", None, 0)
        ELSE IF recorded_year = Invalid THEN Outcome(s, "Validation", None, 0)
        ELSE IF ~ForeignKeyMember(s, input.member_id)
             THEN DbErr(s, "ForeignKeyViolation")
        ELSE LET id == NextRowId(s.contributions)
             IN Outcome(InsertContribution(s, input, amount, recorded_year), "Ok",
                        Some([id |-> id, member_id |-> input.member_id,
                              payment_date |-> input.payment_date,
                              period |-> input.period, amount |-> amount,
                              recorded_year |-> recorded_year]), 0)

\* db.rs Repository::create_contribution: INSERT on the pool, then refresh_year_total
db_rs_create_contribution(s, input) ==
    LET amount        == DecimalFromStr(Trim(input.amount))
        recorded_year == ParseYear(input.payment_date)
    IN  IF amount = Invalid THEN Outcome(s, "Validation", None, 0)
        ELSE IF amount < 0 THEN Outcome(s, "Validation", None, 0)
        ELSE IF recorded_year = Invalid THEN Outcome(s, "Validation", None, 0)
        ELSE IF ~ForeignKeyMember(s, input.member_id)
             THEN DbErr(s, "ForeignKeyViolation")
        ELSE LET id == NextRowId(s.contributions)
                 s1 == InsertContribution(s, input, amount, recorded_year)
             IN Outcome(db_rs_refresh_year_total(s1, recorded_year), "Ok",
                        Some([id |-> id, member_id |-> input.member_id,
                              payment_date |-> input.payment_date,
                              period |-> input.period, amount |-> amount,
                              recorded_year |-> recorded_year]), 0)

\* db.rs Repository::delete_contribution: SELECT (fetch_one), DELETE, refresh_year_total
db_rs_delete_contribution(s, id) ==
    IF ~\E c \in s.contributions : c.id = id THEN DbErr(s, "RowNotFound")
    ELSE LET year == (CHOOSE c \in s.contributions : c.id = id).recorded_year
         IN Outcome(db_rs_refresh_year_total(DeleteContribution(s, id), year),
                    "Ok", None, 0)

\* db.rs Repository::close_year: refresh_year_total, UPDATE, get_year_summary
db_rs_close_year(s, year, note, t) ==
    LET s1  == db_rs_refresh_year_total(s, year)
        s2  == SetClosed(s1, year, Some(t), note)
        row == GetYearSummary(s2, year)
    IN  IF IsSome(row) THEN Outcome(s2, "Ok", row, 0)
        ELSE Outcome(s2, "Validation", None, 0)

\* db.rs Repository::reopen_year
db_rs_reopen_year(s, year) ==
    LET s1  == SetClosed(s, year, None, None)
        row == GetYearSummary(s1, year)
    IN  IF IsSome(row) THEN Outcome(s1, "Ok", row, 0)
        ELSE Outcome(s1, "Validation", None, 0)

\* ---------------------------------------------------------------- calls, one at a time
Conns == 1..NumConns

\* a pool connection with no call on it
Idle ==
    [pc |-> "idle", op |-> "none", tx |-> FALSE, held |-> FALSE, snap |-> FALSE,
     stale |-> FALSE, work |-> EmptyStore, pre |-> EmptyStore, wrote |-> FALSE,
     input |-> [member_id |-> 0, payment_date |-> "", period |-> "", amount |-> ""],
     amount |-> 0, year |-> 0, id |-> 0, total |-> 0, note |-> None, row |-> None]

\* what a call handed back: the method, Ok or the AppError kind, the value, the year it was about
Result(op, status, ret, n, year) ==
    [op |-> op, status |-> status, ret |-> ret, n |-> n, year |-> year]

NoCall == Result("none", "Ok", None, 0, 0)

Init ==
    /\ members = {}
    /\ contributions = {}
    /\ year_summaries = {}
    /\ now = 1
    /\ last = NoCall
    /\ conns = [c \in Conns |-> Idle]

\* the call returns: its store becomes the committed one, its result is recorded
Return(r, op, year) ==
    /\ members' = r.store.members
    /\ contributions' = r.store.contributions
    /\ year_summaries' = r.store.year_summaries
    /\ last' = Result(op, r.status, r.ret, r.n, year)
    /\ UNCHANGED <<now, conns>>

CreateMember ==
    \E input \in MemberInputs :
        LET r == create_member(Store, input, now)
        IN  /\ r.status = "Ok" => NextRowId(members) <= MaxMemberId
            /\ Return(r, "create_member", 0)

UpdateMemberCall ==
    \E id \in 1..MaxMemberId, input \in MemberInputs :
        Return(update_member(Store, id, input), "update_member", 0)

DeleteMemberCall ==
    \E id \in 1..MaxMemberId :
        Return(delete_member(Store, id), "delete_member", 0)

TransferMembersCall ==
    \E ids \in SUBSET (1..MaxMemberId), new_type \in TypeInputs :
        Return(transfer_members(Store, ids, new_type), "transfer_members", 0)

\* ContributionInput records with a payment date among `dates`
ContributionInputsOn(dates) ==
    [member_id : 1..MaxMemberId, payment_date : dates, period : {"P"},
     amount : AmountInputs]

CreateContributionOn(dates) ==
    \E input \in ContributionInputsOn(dates) :
        LET r == create_contribution(Store, input)
        IN  /\ r.status = "Ok" => NextRowId(contributions) <= MaxContribId
            /\ Return(r, "create_contribution", ParseYear(input.payment_date))

\* payments of the previous calendar year, and a malformed date
CreateContribution == CreateContributionOn({"2025-06-01", "15-03-2024"})

\* payments of any year
CreateContributionAnyYear == CreateContributionOn(DateInputs)

DeleteContributionCall ==
    \E id \in 1..MaxContribId :
        Return(delete_contribution(Store, id), "delete_contribution",
               IF \E c \in contributions : c.id = id
               THEN (CHOOSE c \in contributions : c.id = id).recorded_year ELSE 0)

CloseYear ==
    \E year \in Years, note \in NoteInputs :
        Return(close_year(Store, year, note, now), "close_year", year)

ReopenYear ==
    \E year \in Years :
        Return(reopen_year(Store, year), "reopen_year", year)

CheckAndClosePreviousYear ==
    Return(check_and_close_previous_year(Store, now), "check_and_close_previous_year",
           CurrentYear - 1)

Next ==
    \/ CreateMember
    \/ UpdateMemberCall
    \/ DeleteMemberCall
    \/ TransferMembersCall
    \/ CreateContribution
    \/ DeleteContributionCall
    \/ CloseYear
    \/ ReopenYear
    \/ CheckAndClosePreviousYear

Spec == Init /\ [][Next]_vars

\* only contribution creates and deletes (and the members they need)
NextContrib ==
    \/ CreateMember
    \/ CreateContributionAnyYear
    \/ DeleteContributionCall

SpecContrib == Init /\ [][NextContrib]_vars

\* only the calls on members
NextMembers ==
    \/ CreateMember
    \/ UpdateMemberCall
    \/ DeleteMemberCall
    \/ TransferMembersCall

SpecMembers == Init /\ [][NextMembers]_vars

\* create_member and update_member called with any text for gender and member_type
CreateMemberAnyText ==
    \E input \in MemberInputs \cup UnlistedMemberInputs :
        LET r == create_member(Store, input, now)
        IN  /\ r.status = "Ok" => NextRowId(members) <= MaxMemberId
            /\ Return(r, "create_member", 0)

UpdateMemberAnyText ==
    \E id \in 1..MaxMemberId, input \in MemberInputs \cup UnlistedMemberInputs :
        Return(update_member(Store, id, input), "update_member", 0)

NextEnum ==
    \/ CreateMemberAnyText
    \/ UpdateMemberAnyText
    \/ TransferMembersCall

SpecEnum == Init /\ [][NextEnum]_vars

\* only contribution creates and deletes and year closes and reopens
NextYears ==
    \/ CreateMember
    \/ CreateContributionAnyYear
    \/ DeleteContributionCall
    \/ CloseYear
    \/ ReopenYear

SpecYears == Init /\ [][NextYears]_vars

\* contributions of whole and of fractional amounts, in two years
QueryContributionInputs ==
    [member_id : 1..MaxMemberId, payment_date : {"2024-03-15", "2025-06-01"},
     period : {"P"}, amount : {"1", " 1.50 "}]

CreateContributionQueried ==
    \E input \in QueryContributionInputs :
        LET r == create_contribution(Store, input)
        IN  /\ r.status = "Ok" => NextRowId(contributions) <= MaxContribId
            /\ Return(r, "create_contribution", ParseYear(input.payment_date))

GetYearSummaries ==
    Return(get_year_summaries(Store), "get_year_summaries", 0)

GetMembersByTypeWithTotal ==
    \E member_type \in TypeInputs :
        Return(get_members_by_type_with_total(Store, member_type),
               "get_members_by_type_with_total", 0)

\* writes of members and contributions, and the two list queries
NextQueries ==
    \/ CreateMember
    \/ CreateContributionQueried
    \/ DeleteContributionCall
    \/ GetYearSummaries
    \/ GetMembersByTypeWithTotal

SpecQueries == Init /\ [][NextQueries]_vars

\* contributions of one amount on two dates of 2025 and one of 2024
ListContributionInputs ==
    [member_id : 1..MaxMemberId,
     payment_date : {"2024-03-15", "2025-01-10", "2025-06-01"},
     period : {"P"}, amount : {"1"}]

CreateContributionListed ==
    \E input \in ListContributionInputs :
        LET r == create_contribution(Store, input)
        IN  /\ r.status = "Ok" => NextRowId(contributions) <= MaxContribId
            /\ Return(r, "create_contribution", ParseYear(input.payment_date))

GetContributionsByYear ==
    \E year \in Years :
        \E r \in get_contributions_by_year(Store, year) :
            Return(r, "get_contributions_by_year", year)

GetContributionsByYearWithMember ==
    \E year \in Years :
        \E r \in get_contributions_by_year_with_member(Store, year) :
            Return(r, "get_contributions_by_year_with_member", year)

\* writes of members and contributions, and the two lists of a year's contributions
NextLists ==
    \/ CreateMember
    \/ UpdateMemberCall
    \/ DeleteMemberCall
    \/ CreateContributionListed
    \/ GetContributionsByYear
    \/ GetContributionsByYearWithMember

SpecLists == Init /\ [][NextLists]_vars

\* ---------------------------------------------------------------- the two repositories side by side
\* The same call made on the database of db/repo.rs (the store) and on a second
\* database served by db.rs, which connection 2's slot holds: `work` is that
\* database, `row` the result db.rs returned.

\* both calls return
Both(r, d, op, year) ==
    /\ members' = r.store.members
    /\ contributions' = r.store.contributions
    /\ year_summaries' = r.store.year_summaries
    /\ last' = Result(op, r.status, r.ret, r.n, year)
    /\ conns' = [conns EXCEPT ![2] =
          [@ EXCEPT !.work = d.store,
                    !.row = Some(Result(op, d.status, d.ret, d.n, year))]]
    /\ UNCHANGED now

BothCreateMember ==
    \E input \in MemberInputs :
        LET r == create_member(Store, input, now)
        IN  /\ r.status = "Ok" => NextRowId(members) <= MaxMemberId
            /\ Both(r, db_rs_create_member(conns[2].work, input, now), "create_member", 0)

BothUpdateMember ==
    \E id \in 1..MaxMemberId, input \in MemberInputs :
        Both(update_member(Store, id, input),
             db_rs_update_member(conns[2].work, id, input), "update_member", 0)

BothDeleteMember ==
    \E id \in 1..MaxMemberId :
        Both(delete_member(Store, id), db_rs_delete_member(conns[2].work, id),
             "delete_member", 0)

BothCreateContribution ==
    \E input \in ContributionInputsOn({"2025-06-01", "15-03-2024"}) :
        LET r == create_contribution(Store, input)
        IN  /\ r.status = "Ok" => NextRowId(contributions) <= MaxContribId
            /\ Both(r, db_rs_create_contribution(conns[2].work, input),
                    "create_contribution", ParseYear(input.payment_date))

BothDeleteContribution ==
    \E id \in 1..MaxContribId :
        Both(delete_contribution(Store, id),
             db_rs_delete_contribution(conns[2].work, id), "delete_contribution", 0)

BothCloseYear ==
    \E year \in Years, note \in NoteInputs :
        Both(close_year(Store, year, note, now),
             db_rs_close_year(conns[2].work, year, note, now), "close_year", year)

BothReopenYear ==
    \E year \in Years :
        Both(reopen_year(Store, year), db_rs_reopen_year(conns[2].work, year),
             "reopen_year", year)

NextBoth ==
    \/ BothCreateMember
    \/ BothUpdateMember
    \/ BothDeleteMember
    \/ BothCreateContribution
    \/ BothDeleteContribution
    \/ BothCloseYear
    \/ BothReopenYear

SpecBoth == Init /\ [][NextBoth]_vars

\* ---------------------------------------------------------------- the auto-close task
\* The task App spawns at start (app.rs:159-169): one check, then sleep 24 h and
\* check, for ever.  It runs on connection 1's slot: pc "check" when the next thing it
\* does is call check_and_close_previous_year, "sleep" while in sleep_ms; `row` is
\* toast_data.  `now` counts the days.

\* the task as spawned
AutoCloseTask == [Idle EXCEPT !.pc = "check", !.op = "auto_close"]

\* the stores a failed check_and_close_previous_year can leave: nothing written, or
\* (when the year was not closed) only the total refreshed by refresh_year_total,
\* which commits by itself before close_year fails and rolls back
FailedCheckStores(s) ==
    {s} \cup (IF \E r \in SummaryRows(s, CurrentYear - 1) : IsSome(r.closed_at)
              THEN {}
              ELSE {RefreshYearTotal(s, CurrentYear - 1)})

\* the check returns Ok: `if let Ok(Some(s))` sets the toast when a close was made
LoopCheckOk ==
    /\ conns[1].pc = "check"
    /\ LET r == check_and_close_previous_year(Store, now)
       IN  /\ members' = r.store.members
           /\ contributions' = r.store.contributions
           /\ year_summaries' = r.store.year_summaries
           /\ last' = Result("check_and_close_previous_year", r.status, r.ret, 0,
                             CurrentYear - 1)
           /\ conns' = [conns EXCEPT ![1] =
                 [@ EXCEPT !.pc = "sleep",
                           !.row = IF IsSome(r.ret) THEN r.ret ELSE @]]
    /\ UNCHANGED now

\* a failed check that ends the task (an Err propagated out of the loop)
LoopCheckFailsStops ==
    /\ conns[1].pc = "check"
    /\ \E s1 \in FailedCheckStores(Store) :
          /\ members' = s1.members
          /\ contributions' = s1.contributions
          /\ year_summaries' = s1.year_summaries
    /\ last' = Result("check_and_close_previous_year", "Db", None, 0, CurrentYear - 1)
    /\ conns' = [conns EXCEPT ![1] = [@ EXCEPT !.pc = "stopped"]]
    /\ UNCHANGED now

\* the check returns Err: the `if let` does not match and the task goes on
LoopCheckFails ==
    /\ conns[1].pc = "check"
    /\ \E s1 \in FailedCheckStores(Store) :
          /\ members' = s1.members
          /\ contributions' = s1.contributions
          /\ year_summaries' = s1.year_summaries
    /\ last' = Result("check_and_close_previous_year", "Db", None, 0, CurrentYear - 1)
    /\ conns' = [conns EXCEPT ![1] = [@ EXCEPT !.pc = "sleep"]]
    /\ UNCHANGED now

\* sleep_ms(86_400_000) completes: a day has passed
LoopTick ==
    /\ conns[1].pc = "sleep"
    /\ conns' = [conns EXCEPT ![1] = [@ EXCEPT !.pc = "check"]]
    /\ now' = IF now < MaxDays THEN now + 1 ELSE now
    /\ UNCHANGED <<members, contributions, year_summaries, last>>

InitLoop ==
    /\ members = create_member(EmptyStore,
                    CHOOSE i \in MemberInputs : i.card_number = "C001", 1).store.members
    /\ contributions = {}
    /\ year_summaries = {}
    /\ now = 1
    /\ last = NoCall
    /\ conns = [c \in Conns |-> IF c = 1 THEN AutoCloseTask ELSE Idle]

\* the task, and the user's calls on contributions meanwhile (no reopen_year)
NextLoop ==
    \/ LoopCheckOk
    \/ LoopCheckFails
    \/ LoopTick
    \/ CreateContribution
    \/ DeleteContributionCall

\* the timer fires and a started check returns
SpecLoop ==
    /\ InitLoop
    /\ [][NextLoop]_vars
    /\ WF_vars(LoopTick)
    /\ WF_vars(LoopCheckOk \/ LoopCheckFails)

\* the task, with the user closing and reopening years meanwhile
NextNotify ==
    \/ LoopCheckOk
    \/ LoopCheckFails
    \/ LoopTick
    \/ CreateContribution
    \/ DeleteContributionCall
    \/ CloseYear
    \/ ReopenYear

SpecNotify == InitLoop /\ [][NextNotify]_vars

\* the task, with the user closing years by hand meanwhile (no reopen_year)
NextReclose ==
    \/ LoopCheckOk
    \/ LoopCheckFails
    \/ LoopTick
    \/ CreateContribution
    \/ DeleteContributionCall
    \/ CloseYear

SpecReclose == InitLoop /\ [][NextReclose]_vars

\* ---------------------------------------------------------------- calls, statement by statement
\* The same methods with every SQL statement a step of its own, on the pool's
\* connections.  A statement sent to a transaction (&mut *tx) works on the
\* transaction's view and becomes visible at tx.commit(); a statement sent to the
\* pool (&self.pool) commits by itself.  SQLite admits one writer: a connection
\* writes when no other holds the write lock, and a transaction that has read
\* cannot start to write once another connection has committed since (SQLITE_BUSY).

\* no method opens a transaction: every statement goes to the pool
InTransactionDbRs(op) == FALSE

\* whether the method opens a transaction: self.pool.begin()
InTransaction(op) == op \in {"create_contribution", "delete_contribution", "close_year"}

\* the year's summary row exists in s and has closed_at set
YearClosed(s, year) == \E r \in SummaryRows(s, year) : IsSome(r.closed_at)

\* the database as connection c reads it
View(c) == IF conns[c].snap THEN conns[c].work ELSE Store

\* connection c may execute a writing statement now
CanWrite(c) ==
    /\ \A d \in Conns \ {c} : ~conns[d].held
    /\ ~conns[c].stale

\* a commit by c: the readers that hold an older view can no longer write
Outdate(cs, c) ==
    [d \in Conns |-> IF d # c /\ cs[d].snap /\ ~cs[d].held
                     THEN [cs[d] EXCEPT !.stale = TRUE] ELSE cs[d]]

\* c executes a reading statement and goes to pc `next` with the fields of `upd`
Read(c, next, total, year) ==
    /\ conns' = [conns EXCEPT ![c] =
          [@ EXCEPT !.pc = next, !.total = total, !.year = year,
                    !.snap = @ \/ conns[c].tx,
                    !.work = IF conns[c].snap THEN @ ELSE Store]]
    /\ UNCHANGED <<members, contributions, year_summaries, now, last>>

\* c executes a writing statement whose effect on its view is s1, then goes to `next`
Write(c, next, s1) ==
    /\ CanWrite(c)
    /\ IF conns[c].tx
       THEN /\ conns' = [conns EXCEPT ![c] =
                  [@ EXCEPT !.pc = next, !.held = TRUE, !.snap = TRUE, !.work = s1,
                            !.wrote = TRUE,
                            !.pre = IF conns[c].wrote THEN @ ELSE Store]]
            /\ UNCHANGED <<members, contributions, year_summaries>>
       ELSE /\ conns' = Outdate([conns EXCEPT ![c] =
                  [@ EXCEPT !.pc = next, !.wrote = TRUE,
                            !.pre = IF conns[c].wrote THEN @ ELSE Store]], c)
            /\ members' = s1.members
            /\ contributions' = s1.contributions
            /\ year_summaries' = s1.year_summaries
    /\ UNCHANGED <<now, last>>

\* the call on c returns: the connection goes back to the pool
Finish(c, status, ret) ==
    /\ last' = Result(conns[c].op, status, ret, IF conns[c].wrote THEN 1 ELSE 0, conns[c].year)
    /\ UNCHANGED now

\* the calls the connections race on: one member, one year
TxContributionInputs ==
    [member_id : {1}, payment_date : {"2025-06-01", "15-03-2024"}, period : {"P"},
     amount : {" 1.50 "}]

TxYears == {2025}
TxNoteInputs == {Some(<<"ok">>)}

\* a caller starts create_contribution on an idle connection (lines 463-484)
CallCreateContribution(c) ==
    \E input \in TxContributionInputs :
        LET amount        == DecimalFromStr(Trim(input.amount))
            recorded_year == ParseYear(input.payment_date)
        IN  /\ conns[c].pc = "idle"
            /\ NextRowId(contributions) <= MaxContribId
            /\ IF amount = Invalid \/ amount < 0 \/ recorded_year = Invalid
               THEN /\ last' = Result("create_contribution", "Validation", None, 0, 0)
                    /\ UNCHANGED conns
               ELSE /\ conns' = [conns EXCEPT ![c] =
                          [Idle EXCEPT !.pc = "insert", !.op = "create_contribution",
                                       !.tx = InTransaction("create_contribution"),
                                       !.input = input, !.amount = amount,
                                       !.year = recorded_year]]
                    /\ UNCHANGED last
            /\ UNCHANGED <<members, contributions, year_summaries, now>>

\* INSERT INTO contributions ... RETURNING id (lines 486-497)
StepInsert(c) ==
    /\ conns[c].pc = "insert"
    /\ ForeignKeyMember(View(c), conns[c].input.member_id)
    /\ NextRowId(View(c).contributions) <= MaxContribId
    /\ Write(c, "refresh_select",
             InsertContribution(View(c), conns[c].input, conns[c].amount, conns[c].year))

\* a caller starts delete_contribution (line 514)
CallDeleteContribution(c) ==
    \E id \in 1..MaxContribId :
        /\ conns[c].pc = "idle"
        /\ conns' = [conns EXCEPT ![c] =
              [Idle EXCEPT !.pc = "select_year", !.op = "delete_contribution",
                           !.tx = InTransaction("delete_contribution"), !.id = id]]
        /\ UNCHANGED <<members, contributions, year_summaries, now, last>>

\* SELECT recorded_year FROM contributions WHERE id = ? (lines 516-520)
StepSelectYear(c) ==
    /\ conns[c].pc = "select_year"
    /\ \E r \in View(c).contributions : r.id = conns[c].id
    /\ Read(c, "delete", 0,
            (CHOOSE r \in View(c).contributions : r.id = conns[c].id).recorded_year)

\* DELETE FROM contributions WHERE id = ? (lines 522-525)
StepDelete(c) ==
    /\ conns[c].pc = "delete"
    /\ Write(c, "refresh_select", DeleteContribution(View(c), conns[c].id))

\* a caller starts close_year (line 566)
CallCloseYear(c) ==
    \E year \in TxYears, note \in TxNoteInputs :
        /\ conns[c].pc = "idle"
        /\ conns' = [conns EXCEPT ![c] =
              [Idle EXCEPT !.pc = "refresh_select", !.op = "close_year",
                           !.tx = InTransaction("close_year"), !.year = year,
                           !.note = note]]
        /\ UNCHANGED <<members, contributions, year_summaries, now, last>>

\* refresh_year_total_tx: SELECT amount ... and the fold (lines 114-127)
StepRefreshSelect(c) ==
    /\ conns[c].pc = "refresh_select"
    /\ Read(c, "refresh_upsert",
            SumAmounts(ContributionsOfYear(View(c), conns[c].year)), conns[c].year)

\* refresh_year_total_tx: the UPSERT (lines 129-137)
StepRefreshUpsert(c) ==
    /\ conns[c].pc = "refresh_upsert"
    /\ Write(c, IF conns[c].op = "close_year" THEN "set_closed" ELSE "commit",
             UpsertTotal(View(c), conns[c].year, conns[c].total))

\* UPDATE year_summaries SET closed_at = ?, note = ? (lines 570-578)
StepSetClosed(c) ==
    /\ conns[c].pc = "set_closed"
    /\ Write(c, "read_final", SetClosed(View(c), conns[c].year, Some(now), conns[c].note))

\* the final SELECT of close_year (lines 581-586)
StepReadFinal(c) ==
    /\ conns[c].pc = "read_final"
    /\ conns' = [conns EXCEPT ![c] =
          [@ EXCEPT !.pc = "commit", !.row = GetYearSummary(View(c), conns[c].year)]]
    /\ UNCHANGED <<members, contributions, year_summaries, now, last>>

\* tx.commit() and the return of the method
StepCommit(c) ==
    /\ conns[c].pc = "commit"
    /\ IF conns[c].tx
       THEN /\ members' = conns[c].work.members
            /\ contributions' = conns[c].work.contributions
            /\ year_summaries' = conns[c].work.year_summaries
            /\ conns' = Outdate([conns EXCEPT ![c] = Idle], c)
       ELSE /\ conns' = [conns EXCEPT ![c] = Idle]
            /\ UNCHANGED <<members, contributions, year_summaries>>
    /\ IF conns[c].op = "close_year" /\ ~IsSome(conns[c].row)
       THEN Finish(c, "Validation", None)
       ELSE Finish(c, "Ok", conns[c].row)

\* a statement (or the commit) returns an error: `?` leaves the method, the
\* Transaction is dropped and rolls back what was not committed
StepFail(c) ==
    /\ conns[c].pc # "idle"
    /\ conns' = [conns EXCEPT ![c] = Idle]
    /\ Finish(c, "Db", None)
    /\ UNCHANGED <<members, contributions, year_summaries>>

\* the note check_and_close_previous_year builds (lines 449-453)
AutoCloseNote(prev_year, total) ==
    <<"CONTRIBUTIONS de l'annee ">> \o Digits(prev_year)
        \o <<" / TOTAL : ">> \o format_ariary_note(total)

\* a caller starts check_and_close_previous_year (line 431); its first statements go
\* to the pool
CallCheckAndClose(c) ==
    /\ conns[c].pc = "idle"
    /\ conns' = [conns EXCEPT ![c] =
          [Idle EXCEPT !.pc = "cc_existing", !.op = "check_and_close_previous_year",
                       !.year = CurrentYear - 1]]
    /\ UNCHANGED <<members, contributions, year_summaries, now, last>>

\* get_year_summary(prev_year): return Ok(None) when it is closed (lines 434-438)
StepCheckExisting(c) ==
    /\ conns[c].pc = "cc_existing"
    /\ IF YearClosed(View(c), conns[c].year)
       THEN /\ conns' = [conns EXCEPT ![c] = Idle]
            /\ Finish(c, "Ok", None)
            /\ UNCHANGED <<members, contributions, year_summaries>>
       ELSE /\ conns' = [conns EXCEPT ![c] = [@ EXCEPT !.pc = "cc_refresh_select"]]
            /\ UNCHANGED <<members, contributions, year_summaries, now, last>>

\* refresh_year_total: SELECT amount ... and the fold (lines 144-157)
StepAutoRefreshSelect(c) ==
    /\ conns[c].pc = "cc_refresh_select"
    /\ Read(c, "cc_refresh_upsert",
            SumAmounts(ContributionsOfYear(View(c), conns[c].year)), conns[c].year)

\* refresh_year_total: the UPSERT, committed by itself (lines 159-167)
StepAutoRefreshUpsert(c) ==
    /\ conns[c].pc = "cc_refresh_upsert"
    /\ Write(c, "cc_read_total", UpsertTotal(View(c), conns[c].year, conns[c].total))

\* get_year_summary(prev_year).map(|s| s.total), the note, and close_year's
\* pool.begin() (lines 443-455, 566)
StepReadTotal(c) ==
    /\ conns[c].pc = "cc_read_total"
    /\ LET row   == GetYearSummary(View(c), conns[c].year)
           total == IF IsSome(row) THEN Unwrap(row).total ELSE 0
       IN  conns' = [conns EXCEPT ![c] =
               [@ EXCEPT !.pc = "cc_close_select", !.tx = TRUE,
                         !.note = Some(AutoCloseNote(conns[c].year, total))]]
    /\ UNCHANGED <<members, contributions, year_summaries, now, last>>

\* close_year's refresh_year_total_tx: SELECT and fold (lines 114-127)
StepAutoCloseSelect(c) ==
    /\ conns[c].pc = "cc_close_select"
    /\ Read(c, "cc_close_upsert",
            SumAmounts(ContributionsOfYear(View(c), conns[c].year)), conns[c].year)

\* close_year's refresh_year_total_tx: the UPSERT (lines 129-137)
StepAutoCloseUpsert(c) ==
    /\ conns[c].pc = "cc_close_upsert"
    /\ Write(c, "cc_set_closed", UpsertTotal(View(c), conns[c].year, conns[c].total))

\* close_year's UPDATE ... SET closed_at = ?, note = ? (lines 570-578)
StepAutoSetClosed(c) ==
    /\ conns[c].pc = "cc_set_closed"
    /\ Write(c, "cc_read_final",
             SetClosed(View(c), conns[c].year, Some(now), conns[c].note))

\* close_year's final SELECT (lines 581-586)
StepAutoReadFinal(c) ==
    /\ conns[c].pc = "cc_read_final"
    /\ conns' = [conns EXCEPT ![c] =
          [@ EXCEPT !.pc = "cc_commit", !.row = GetYearSummary(View(c), conns[c].year)]]
    /\ UNCHANGED <<members, contributions, year_summaries, now, last>>

\* close_year's tx.commit(), and Ok(Some(closed)) (lines 588-592, 455-456)
StepAutoCommit(c) ==
    /\ conns[c].pc = "cc_commit"
    /\ members' = conns[c].work.members
    /\ contributions' = conns[c].work.contributions
    /\ year_summaries' = conns[c].work.year_summaries
    /\ conns' = Outdate([conns EXCEPT ![c] = Idle], c)
    /\ IF IsSome(conns[c].row)
       THEN Finish(c, "Ok", conns[c].row)
       ELSE Finish(c, "Validation", None)

InitTx ==
    /\ members = create_member(EmptyStore, CHOOSE i \in MemberInputs : i.card_number = "C001", 1).store.members
    /\ contributions = {}
    /\ year_summaries = {}
    /\ now = 1
    /\ last = NoCall
    /\ conns = [c \in Conns |-> Idle]

NextTx ==
    \/ \E c \in Conns : CallCreateContribution(c)
    \/ \E c \in Conns : StepInsert(c)
    \/ \E c \in Conns : CallDeleteContribution(c)
    \/ \E c \in Conns : StepSelectYear(c)
    \/ \E c \in Conns : StepDelete(c)
    \/ \E c \in Conns : CallCloseYear(c)
    \/ \E c \in Conns : StepRefreshSelect(c)
    \/ \E c \in Conns : StepRefreshUpsert(c)
    \/ \E c \in Conns : StepSetClosed(c)
    \/ \E c \in Conns : StepReadFinal(c)
    \/ \E c \in Conns : StepCommit(c)
    \/ \E c \in Conns : StepFail(c)

SpecTx == InitTx /\ [][NextTx]_vars

\* check_and_close_previous_year statement by statement, beside contribution
\* creates on the other connections
NextAuto ==
    \/ \E c \in Conns : CallCreateContribution(c)
    \/ \E c \in Conns : StepInsert(c)
    \/ \E c \in Conns : StepRefreshSelect(c)
    \/ \E c \in Conns : StepRefreshUpsert(c)
    \/ \E c \in Conns : StepCommit(c)
    \/ \E c \in Conns : CallCheckAndClose(c)
    \/ \E c \in Conns : StepCheckExisting(c)
    \/ \E c \in Conns : StepAutoRefreshSelect(c)
    \/ \E c \in Conns : StepAutoRefreshUpsert(c)
    \/ \E c \in Conns : StepReadTotal(c)
    \/ \E c \in Conns : StepAutoCloseSelect(c)
    \/ \E c \in Conns : StepAutoCloseUpsert(c)
    \/ \E c \in Conns : StepAutoSetClosed(c)
    \/ \E c \in Conns : StepAutoReadFinal(c)
    \/ \E c \in Conns : StepAutoCommit(c)
    \/ \E c \in Conns : StepFail(c)

SpecAuto == InitTx /\ [][NextAuto]_vars

\* ---------------------------------------------------------------- properties
\* the stored total of year y is the sum of the stored contributions of y
TotalMatches(s, y) ==
    \A r \in SummaryRows(s, y) : r.total = SumAmounts(ContributionsOfYear(s, y))

HasSummary(s, y) == SummaryRows(s, y) # {}

\* C1: after any sequence of create_contribution and delete_contribution calls,
\* every year one of them touched (it has a summary row or a contribution) has a
\* summary whose total is exactly the sum of the amounts stored for that year.
C1_TotalAfterContributionCalls ==
    \A y \in Years :
        (HasSummary(Store, y) \/ ContributionsOfYear(Store, y) # {})
            => HasSummary(Store, y) /\ TotalMatches(Store, y)

\* two contributions were created in a year and one of them was deleted
C1_Witness ==
    /\ last.op = "delete_contribution"
    /\ last.status = "Ok"
    /\ \E r \in year_summaries : r.year = last.year /\ r.total = 150
    /\ Cardinality(contributions) = 1

\* C2: in every reachable state every year_summaries row has a total equal to the
\* sum of the amounts of the contributions recorded for its year.
C2_EverySummaryMatches ==
    \A r \in year_summaries : r.total = SumAmounts(ContributionsOfYear(Store, r.year))

\* the step is connection c leaving method op with an error after having written
FailsAfterWrite(c, op) ==
    /\ conns[c].op = op
    /\ conns[c].wrote
    /\ conns'[c] = Idle
    /\ last' = Result(op, "Db", None, 1, conns[c].year)

\* C3: when create_contribution fails after its INSERT and before its commit, the
\* committed members, contributions and year summaries are those from before the
\* INSERT: no new contribution row, no created or changed summary.
C3_CreateContributionRollsBack ==
    [][\A c \in Conns :
          FailsAfterWrite(c, "create_contribution")
              => /\ Store' = conns[c].pre
                 /\ Store' = Store]_vars

C3_Witness ==
    /\ last = Result("create_contribution", "Db", None, 1, 2025)
    /\ \A c \in Conns : conns[c].pc = "idle"

\* C4: when delete_contribution fails after its DELETE and before its commit, the
\* contribution is still stored and every year summary is as before the DELETE.
C4_DeleteContributionRollsBack ==
    [][\A c \in Conns :
          FailsAfterWrite(c, "delete_contribution")
              => /\ \E r \in contributions' : r.id = conns[c].id
                 /\ Store' = conns[c].pre]_vars

C4_Witness ==
    /\ last = Result("delete_contribution", "Db", None, 1, 2025)
    /\ contributions # {}
    /\ \A c \in Conns : conns[c].pc = "idle"

\* C5: with create_contribution and delete_contribution calls running on several
\* connections at once, every committed state has, for every year with a
\* contribution or a summary, a summary whose total is the sum of the committed
\* contributions of that year.
C5_NoLostUpdate ==
    /\ \A r \in contributions : HasSummary(Store, r.recorded_year)
    /\ \A r \in year_summaries : TotalMatches(Store, r.year)

\* one call holds the write lock while another call on the same year is under way,
\* after an earlier call has committed
C5_Witness ==
    \E c, d \in Conns :
        /\ c # d
        /\ conns[c].op = "create_contribution" /\ conns[c].held
        /\ conns[d].op = "delete_contribution" /\ conns[d].pc = "delete"
        /\ \E r \in year_summaries : r.total = 150

\* the step makes the closed_at written by the close_year on c visible to readers
ClosePublished(c) ==
    /\ conns[c].op = "close_year"
    /\ \/ /\ conns[c].tx
          /\ conns[c].pc = "commit"
          /\ conns'[c] = Idle
          /\ last'.status # "Db"
       \/ /\ ~conns[c].tx
          /\ conns[c].pc = "set_closed"
          /\ conns'[c].pc = "read_final"

\* C6: at the moment the closed_at written by a close_year becomes visible, what
\* get_year_summary reads is that closed_at together with the total this close_year
\* recomputed, which is the sum of the committed contributions of the year.
C6_CloseYearPublishesFreshTotal ==
    [][\A c \in Conns :
          ClosePublished(c)
              => LET seen == GetYearSummary(Store', conns[c].year)
                 IN  /\ IsSome(seen)
                     /\ Unwrap(seen).closed_at = Some(now)
                     /\ Unwrap(seen).total = conns[c].total
                     /\ Unwrap(seen).total =
                            SumAmounts(ContributionsOfYear(Store', conns[c].year))]_vars

\* a close_year has returned a non-zero total while another call is under way
C6_Witness ==
    /\ last.op = "close_year"
    /\ last.status = "Ok"
    /\ IsSome(last.ret)
    /\ Unwrap(last.ret).total = 150
    /\ IsSome(Unwrap(last.ret).closed_at)
    /\ \E d \in Conns : conns[d].pc # "idle"

\* C7: a successful close_year(y, n) returns, and leaves stored, a summary with
\* closed_at set, note n and total equal to the sum of the contributions stored
\* for y, whatever total was stored before.
C7_CloseYearFreshTotal ==
    [][\A y \in Years, n \in NoteInputs :
          LET r == close_year(Store, y, n, now)
          IN  (r.status = "Ok" /\ Return(r, "close_year", y))
                  => /\ IsSome(last'.ret)
                     /\ IsSome(Unwrap(last'.ret).closed_at)
                     /\ Unwrap(last'.ret).note = n
                     /\ Unwrap(last'.ret).total =
                            SumAmounts(ContributionsOfYear(Store', y))
                     /\ GetYearSummary(Store', y) = last'.ret
                     /\ contributions' = contributions]_vars

\* close_year has returned the sum of two contributions, with the note it was given
C7_Witness ==
    /\ last.op = "close_year"
    /\ last.status = "Ok"
    /\ IsSome(last.ret)
    /\ Unwrap(last.ret).total = 300
    /\ Unwrap(last.ret).note = Some(<<"ok">>)

\* C8: reopen_year(y) on a year that has a summary row sets closed_at and note to
\* None and changes nothing else: not the row's total, no other year's row, no
\* member, no contribution.
C8_ReopenYearFrame ==
    [][\A y \in Years :
          (HasSummary(Store, y) /\ Return(reopen_year(Store, y), "reopen_year", y))
              => /\ last'.status = "Ok"
                 /\ members' = members
                 /\ contributions' = contributions
                 /\ year_summaries' =
                        {IF r.year = y THEN [r EXCEPT !.closed_at = None, !.note = None]
                         ELSE r : r \in year_summaries}
                 /\ GetYearSummary(Store', y) = last'.ret]_vars

\* a year was reopened with its total kept while another year stays closed
C8_Witness ==
    /\ last.op = "reopen_year"
    /\ last.status = "Ok"
    /\ Unwrap(last.ret).total = 150
    /\ \E r \in year_summaries : r.year # last.year /\ IsSome(r.closed_at)

\* C9: reopen_year(y) on a year with no summary row returns an error and leaves the
\* store unchanged; it creates no row for y.
C9_ReopenMissingYear ==
    [][\A y \in Years :
          (~HasSummary(Store, y) /\ Return(reopen_year(Store, y), "reopen_year", y))
              => /\ last'.status = "Validation"
                 /\ ~HasSummary(Store', y)
                 /\ UNCHANGED <<members, contributions, year_summaries>>]_vars

C9_Witness ==
    /\ last.op = "reopen_year"
    /\ last.status = "Validation"
    /\ ~HasSummary(Store, last.year)
    /\ year_summaries # {}

\* C10: every stored contribution's member_id is the id of a stored member.
C10_NoOrphanContribution ==
    \A r \in contributions : \E m \in members : m.id = r.member_id

\* delete_member has removed a member's contributions (a summary still carries their
\* amount) while another member keeps a contribution
C10_Witness ==
    /\ last.op = "delete_member"
    /\ contributions # {}
    /\ \E r \in year_summaries : ~TotalMatches(Store, r.year)

\* no two stored members have the same card_number
UniqueCards(s) ==
    \A m1, m2 \in s.members : m1.id # m2.id => m1.card_number # m2.card_number

\* another stored member than `id` already has this card_number
CardOfAnother(s, card, id) == \E m \in s.members : m.card_number = card /\ m.id # id

\* C11: after every create_member and update_member no two members share a
\* card_number; a create_member whose card_number is that of a stored member, and
\* an update_member of a stored member to the card_number of another one, fail with
\* the storage error of the uniqueness constraint and leave the store unchanged.
C11_UniqueCardNumber ==
    [][/\ UniqueCards(Store')
       /\ \A input \in MemberInputs :
             (/\ CardOfAnother(Store, input.card_number, 0)
              /\ Return(create_member(Store, input, now), "create_member", 0))
                 => /\ last'.status = "Db"
                    /\ last'.ret = Some("UniqueViolation")
                    /\ Store' = Store
       /\ \A id \in 1..MaxMemberId, input \in MemberInputs :
             (/\ MemberExists(Store, id)
              /\ CardOfAnother(Store, input.card_number, id)
              /\ Return(update_member(Store, id, input), "update_member", 0))
                 => /\ last'.status = "Db"
                    /\ last'.ret = Some("UniqueViolation")
                    /\ Store' = Store]_vars

\* an update_member to the card of the other stored member was refused
C11_Witness ==
    /\ last.op = "update_member"
    /\ last.status = "Db"
    /\ last.ret = Some("UniqueViolation")
    /\ Cardinality(members) = 2

\* the summary of the previous calendar year exists and is closed
PreviousYearClosed(s) ==
    \E r \in SummaryRows(s, CurrentYear - 1) : IsSome(r.closed_at)

\* the step is a call of check_and_close_previous_year that returns
IsCheckAndClose ==
    Return(check_and_close_previous_year(Store, now), "check_and_close_previous_year",
           CurrentYear - 1)

\* C12: check_and_close_previous_year called when the previous year's summary
\* exists and is closed returns Ok(None) and leaves members, contributions and
\* year summaries (total, closed_at and note included) as they were; called right
\* after a check_and_close_previous_year that succeeded, it returns Ok(None).
C12_CheckAndCloseIdempotent ==
    [][IsCheckAndClose
          => /\ PreviousYearClosed(Store)
                    => /\ last'.status = "Ok"
                       /\ last'.ret = None
                       /\ Store' = Store
             /\ (last.op = "check_and_close_previous_year" /\ last.status = "Ok")
                    => /\ last'.status = "Ok"
                       /\ last'.ret = None
                       /\ Store' = Store]_vars

\* the call found the year closed by close_year with the caller's note, and kept it
C12_Witness ==
    /\ last.op = "check_and_close_previous_year"
    /\ last.status = "Ok"
    /\ last.ret = None
    /\ \E r \in SummaryRows(Store, CurrentYear - 1) :
           IsSome(r.closed_at) /\ r.note = Some(<<"ok">>) /\ r.total = 150

\* C13: check_and_close_previous_year called when the previous year has no summary
\* row, or an open one, and succeeding, returns Some(summary); the stored summary of
\* that year is the one returned, with closed_at set, a non-empty note, and total
\* equal to the sum of the year's contributions (0 when there are none).
C13_CheckAndCloseCloses ==
    [][(IsCheckAndClose /\ ~PreviousYearClosed(Store) /\ last'.status = "Ok")
          => /\ IsSome(last'.ret)
             /\ GetYearSummary(Store', CurrentYear - 1) = last'.ret
             /\ IsSome(Unwrap(last'.ret).closed_at)
             /\ IsSome(Unwrap(last'.ret).note)
             /\ Len(Unwrap(Unwrap(last'.ret).note)) > 0
             /\ Unwrap(last'.ret).total =
                    SumAmounts(ContributionsOfYear(Store', CurrentYear - 1))
             /\ contributions' = contributions]_vars

\* the call closed a year holding two contributions
C13_Witness ==
    /\ last.op = "check_and_close_previous_year"
    /\ last.status = "Ok"
    /\ IsSome(last.ret)
    /\ Unwrap(last.ret).total = 300
    /\ IsSome(Unwrap(last.ret).closed_at)
    /\ Cardinality(ContributionsOfYear(Store, CurrentYear - 1)) = 2

\* the step is create_contribution(input) returning
IsCreateContribution(input) ==
    Return(create_contribution(Store, input), "create_contribution",
           ParseYear(input.payment_date))

\* C14: create_contribution with an amount that is not a decimal number, with a
\* negative amount, or with a payment_date that is not a YYYY-MM-DD date returns
\* AppError::Validation and leaves members, contributions and year summaries as
\* they were.
C14_CreateContributionValidates ==
    [][\A input \in ContributionInputsOn(DateInputs) :
          (/\ \/ DecimalFromStr(Trim(input.amount)) = Invalid
              \/ DecimalFromStr(Trim(input.amount)) < 0
              \/ ParseYear(input.payment_date) = Invalid
           /\ IsCreateContribution(input))
              => /\ last'.status = "Validation"
                 /\ Store' = Store]_vars

\* a well-dated create_contribution was refused for its amount, with a contribution
\* and a summary already stored
C14_Witness ==
    /\ last.op = "create_contribution"
    /\ last.status = "Validation"
    /\ last.year = 2024
    /\ ContributionsOfYear(Store, 2024) # {}
    /\ HasSummary(Store, 2024)

\* C15: create_contribution with a valid amount and date and a member_id that is
\* the id of no stored member fails (the storage error of the foreign key) and
\* leaves the store unchanged: no contribution row, no created or changed summary.
C15_CreateContributionUnknownMember ==
    [][\A input \in ContributionInputsOn(DateInputs) :
          (/\ DecimalFromStr(Trim(input.amount)) # Invalid
           /\ DecimalFromStr(Trim(input.amount)) >= 0
           /\ ParseYear(input.payment_date) # Invalid
           /\ ~MemberExists(Store, input.member_id)
           /\ IsCreateContribution(input))
              => /\ last'.status = "Db"
                 /\ last'.ret = Some("ForeignKeyViolation")
                 /\ Store' = Store]_vars

\* a contribution for a missing member was refused in a year that has none, while
\* another year has a contribution
C15_Witness ==
    /\ last.op = "create_contribution"
    /\ last.status = "Db"
    /\ last.ret = Some("ForeignKeyViolation")
    /\ last.year = 2025
    /\ ~HasSummary(Store, 2025)
    /\ ContributionsOfYear(Store, 2024) # {}

\* C16: delete_contribution(id) for an id no stored contribution has fails with
\* AppError::Db(RowNotFound) and leaves the store unchanged.
C16_DeleteContributionNotFound ==
    [][\A id \in 1..MaxContribId :
          (/\ ~\E r \in contributions : r.id = id
           /\ Return(delete_contribution(Store, id), "delete_contribution", 0))
              => /\ last'.status = "Db"
                 /\ last'.ret = Some("RowNotFound")
                 /\ Store' = Store]_vars

\* a delete of a missing id was refused while a contribution and its summary are stored
C16_Witness ==
    /\ last.op = "delete_contribution"
    /\ last.status = "Db"
    /\ last.ret = Some("RowNotFound")
    /\ contributions # {}
    /\ year_summaries # {}

\* C17: delete_member(id) for an id no stored member has returns Ok and leaves
\* members, contributions and year summaries unchanged; and a second
\* delete_member(id) after any delete_member(id) leaves the store the first one left.
C17_DeleteMemberMissing ==
    [][\A id \in 1..MaxMemberId :
          Return(delete_member(Store, id), "delete_member", 0)
              => /\ last'.status = "Ok"
                 /\ ~MemberExists(Store, id) => Store' = Store
                 /\ delete_member(Store', id).status = "Ok"
                 /\ delete_member(Store', id).store = Store']_vars

\* delete_member has returned and left a member, two contributions and summaries
\* whose totals match
C17_Witness ==
    /\ last.op = "delete_member"
    /\ last.status = "Ok"
    /\ Cardinality(members) = 1
    /\ Cardinality(contributions) = 2
    /\ \A r \in year_summaries : TotalMatches(Store, r.year)
    /\ year_summaries # {}

\* new_category is one of the two recognized values
Recognized(new_type) == new_type \in {"Communiant", "Cathekomen"}

\* the step is transfer_members(ids, new_type) returning
IsTransfer(ids, new_type) ==
    Return(transfer_members(Store, ids, new_type), "transfer_members", 0)

\* C18 as stated: transfer_members with a new_category that is not recognized fails
\* with Validation for every id list, and changes no member.
C18_InvalidCategoryAnyIds ==
    [][\A ids \in SUBSET (1..MaxMemberId), new_type \in TypeInputs :
          (~Recognized(new_type) /\ IsTransfer(ids, new_type))
              => /\ last'.status = "Validation"
                 /\ members' = members]_vars

\* C18: transfer_members with a new_category that is not recognized fails with
\* Validation for every non-empty id list, returns Ok(0) for the empty id list,
\* and in both cases changes nothing in the store.
C18_InvalidCategoryNonEmptyIds ==
    [][\A ids \in SUBSET (1..MaxMemberId), new_type \in TypeInputs :
          (~Recognized(new_type) /\ IsTransfer(ids, new_type))
              => /\ ids # {} => last'.status = "Validation"
                 /\ ids = {} => last'.status = "Ok" /\ last'.n = 0
                 /\ Store' = Store]_vars

\* a transfer was refused for its category while two members are stored
C18_Witness ==
    /\ last.op = "transfer_members"
    /\ last.status = "Validation"
    /\ Cardinality(members) = 2

\* C19: transfer_members with an empty id list returns Ok(0), whatever the
\* category, and changes nothing in the store.
C19_TransferNoIds ==
    [][\A new_type \in TypeInputs :
          IsTransfer({}, new_type)
              => /\ last'.status = "Ok"
                 /\ last'.n = 0
                 /\ Store' = Store]_vars

\* a transfer has returned 0 while every id a caller can name is stored
C19_Witness ==
    /\ last.op = "transfer_members"
    /\ last.status = "Ok"
    /\ last.n = 0
    /\ \A id \in 1..MaxMemberId : MemberExists(Store, id)

\* the stored members named in ids
Named(s, ids) == {m \in s.members : m.id \in ids}

\* C20 as stated: a successful transfer_members returns the number of stored
\* members named in ids whose category differed from new_category, and afterwards
\* every stored member named in ids has new_category.
C20_CountsChangedRows ==
    [][\A ids \in SUBSET (1..MaxMemberId), new_type \in TypeInputs :
          (IsTransfer(ids, new_type) /\ last'.status = "Ok")
              => /\ last'.n = Cardinality({m \in Named(Store, ids) :
                                              m.member_type # new_type})
                 /\ \A m \in Named(Store', ids) : m.member_type = new_type]_vars

\* C20: a successful transfer_members returns the number of stored members named
\* in ids, those already in new_category included (ids of missing members are not
\* counted); afterwards every stored member named in ids has new_category and
\* nothing else in the store has changed.
C20_CountsMatchedRows ==
    [][\A ids \in SUBSET (1..MaxMemberId), new_type \in TypeInputs :
          (IsTransfer(ids, new_type) /\ last'.status = "Ok")
              => /\ last'.n = Cardinality(Named(Store, ids))
                 /\ \A m \in Named(Store', ids) : m.member_type = new_type
                 /\ members' = {IF m.id \in ids THEN [m EXCEPT !.member_type = new_type]
                                 ELSE m : m \in members}
                 /\ UNCHANGED <<contributions, year_summaries>>]_vars

\* a transfer naming one stored member has returned 1 and left the two stored
\* members in different categories
C20_Witness ==
    /\ last.op = "transfer_members"
    /\ last.status = "Ok"
    /\ last.n = 1
    /\ Cardinality(members) = 2
    /\ \E m1, m2 \in members : m1.member_type # m2.member_type

\* the text is empty once trimmed
Blank(text) == text \in {"", " ", "  "}

\* the step is update_member(id, input) returning
IsUpdateMember(id, input) ==
    Return(update_member(Store, id, input), "update_member", 0)

\* C21: update_member(id, input) with a non-blank card number and full name fails
\* with AppError::Db(RowNotFound) and changes nothing when no member has that id;
\* when it succeeds, the member with that id has the seven fields of the input, its
\* id and created_at as before, it is the member returned, and every other member,
\* every contribution and every year summary is unchanged.
C21_UpdateMemberFrame ==
    [][\A id \in 1..MaxMemberId, input \in MemberInputs :
          (/\ ~Blank(input.card_number)
           /\ ~Blank(input.full_name)
           /\ IsUpdateMember(id, input))
              => /\ ~MemberExists(Store, id)
                        => /\ last'.status = "Db"
                           /\ last'.ret = Some("RowNotFound")
                           /\ Store' = Store
                 /\ last'.status = "Ok"
                        => /\ \E m \in members :
                                 /\ m.id = id
                                 /\ members' = (members \ {m}) \cup
                                       {[id |-> m.id, created_at |-> m.created_at,
                                         card_number |-> input.card_number,
                                         full_name |-> input.full_name,
                                         address |-> input.address,
                                         phone |-> input.phone, job |-> input.job,
                                         gender |-> input.gender,
                                         member_type |-> input.member_type]}
                           /\ last'.ret = Some(CHOOSE m \in members' : m.id = id)
                           /\ UNCHANGED <<contributions, year_summaries>>]_vars

\* update_member has succeeded on member 2 while member 1 carries the fields an
\* earlier update gave it
C21_Witness ==
    /\ last.op = "update_member"
    /\ last.status = "Ok"
    /\ Unwrap(last.ret).id = 2
    /\ Unwrap(last.ret).full_name = "Alice"
    /\ \E m \in members : m.id = 1 /\ m.full_name = "Bob" /\ m.member_type = "Cathekomen"

\* C22: create_member and update_member return AppError::Validation and leave the
\* store unchanged whenever the input's card number or full name is empty once
\* trimmed; after every step no stored member has a blank card number or full name.
C22_BlankCardOrNameRefused ==
    [][/\ \A m \in members' : ~Blank(m.card_number) /\ ~Blank(m.full_name)
       /\ \A input \in MemberInputs :
             (/\ Blank(input.card_number) \/ Blank(input.full_name)
              /\ Return(create_member(Store, input, now), "create_member", 0))
                 => /\ last'.status = "Validation"
                    /\ Store' = Store
       /\ \A id \in 1..MaxMemberId, input \in MemberInputs :
             (/\ Blank(input.card_number) \/ Blank(input.full_name)
              /\ IsUpdateMember(id, input))
                 => /\ last'.status = "Validation"
                    /\ Store' = Store]_vars

\* an update_member was refused for a blank field while two members are stored
C22_Witness ==
    /\ last.op = "update_member"
    /\ last.status = "Validation"
    /\ Cardinality(members) = 2

\* the contributions the step makes visible to readers of the committed store
NewlyVisible == contributions' \ contributions

\* C23: the step that makes visible the first contribution of a year with no
\* summary row makes the year's row visible with it: one row, total equal to that
\* contribution's amount, closed_at and note None.
C23_FirstContributionCreatesSummary ==
    [][\A r \in NewlyVisible :
          ~HasSummary(Store, r.recorded_year)
              => SummaryRows(Store', r.recorded_year) =
                     {[year |-> r.recorded_year, total |-> r.amount,
                       closed_at |-> None, note |-> None]}]_vars

\* a create_contribution has returned Ok and the year's only row is the one it made
C23_Witness ==
    /\ last.op = "create_contribution"
    /\ last.status = "Ok"
    /\ Cardinality(contributions) = 1
    /\ year_summaries = {[year |-> 2025, total |-> 150, closed_at |-> None, note |-> None]}

\* the year's row after the step: the row before it with the total recomputed
RowWithNewTotal(y) ==
    {[r EXCEPT !.total = SumAmounts(ContributionsOfYear(Store', y))] :
        r \in SummaryRows(Store, y)}

\* C24: on a year whose summary is closed, a create_contribution with valid input
\* for a stored member, and a delete_contribution of a stored contribution, succeed;
\* the contribution is added (removed), the summary's total becomes the new sum, and
\* its closed_at and note stay as they were.
C24_ClosedYearStillWritable ==
    [][/\ \A input \in ContributionInputsOn(DateInputs) :
             (/\ DecimalFromStr(Trim(input.amount)) # Invalid
              /\ DecimalFromStr(Trim(input.amount)) >= 0
              /\ ParseYear(input.payment_date) # Invalid
              /\ MemberExists(Store, input.member_id)
              /\ YearClosed(Store, ParseYear(input.payment_date))
              /\ IsCreateContribution(input))
                 => /\ last'.status = "Ok"
                    /\ Cardinality(contributions') = Cardinality(contributions) + 1
                    /\ contributions \subseteq contributions'
                    /\ SummaryRows(Store', ParseYear(input.payment_date)) =
                           RowWithNewTotal(ParseYear(input.payment_date))
       /\ \A r \in contributions :
             (/\ YearClosed(Store, r.recorded_year)
              /\ Return(delete_contribution(Store, r.id), "delete_contribution",
                        r.recorded_year))
                 => /\ last'.status = "Ok"
                    /\ contributions' = contributions \ {r}
                    /\ SummaryRows(Store', r.recorded_year) =
                           RowWithNewTotal(r.recorded_year)]_vars

\* a contribution was deleted from a closed year: the row keeps closed_at and the
\* caller's note, and carries the new sum
C24_Witness ==
    /\ last.op = "delete_contribution"
    /\ last.status = "Ok"
    /\ \E r \in SummaryRows(Store, last.year) :
           /\ IsSome(r.closed_at)
           /\ r.note = Some(<<"ok">>)
           /\ r.total = 150
    /\ Cardinality(ContributionsOfYear(Store, last.year)) = 1

\* C25: after every step every stored contribution has amount >= 0 and
\* recorded_year equal to the year of its payment_date, and a contribution stored
\* before and after a step has the same member_id, payment_date, period, amount
\* and recorded_year.
C25_ContributionsImmutable ==
    [][/\ \A r \in contributions' :
             /\ r.amount >= 0
             /\ r.recorded_year = ParseYear(r.payment_date)
       /\ \A r \in contributions, q \in contributions' : q.id = r.id => q = r]_vars

\* a contribution is still stored, unchanged, after a call that wrote members,
\* year summaries and other contributions
C25_Witness ==
    /\ last.op = "delete_member"
    /\ \E r \in contributions : r.amount = 150 /\ r.recorded_year = 2025
    /\ \E y \in Years : YearClosed(Store, y)
    /\ \E m \in members : m.member_type # "Communiant" /\ m.full_name = "Alice"

\* C26: refresh_year_total run twice in a row for a year leaves, after the second
\* run, the store the first run left (total, closed_at and note of the year's row
\* included); the first run itself keeps the closed_at and note of an existing row.
C26_RefreshIdempotent ==
    \A y \in Years :
        LET s1 == RefreshYearTotal(Store, y)
            s2 == RefreshYearTotal(s1, y)
        IN  /\ s2 = s1
            /\ \A r \in SummaryRows(Store, y) :
                   \E q \in SummaryRows(s1, y) :
                       q.closed_at = r.closed_at /\ q.note = r.note

\* close_year has recomputed the total of a year with two contributions, and
\* another year has no row for a recompute to find
C26_Witness ==
    /\ last.op = "close_year"
    /\ last.status = "Ok"
    /\ Unwrap(last.ret).total = 300
    /\ Unwrap(last.ret).note = Some(<<"ok">>)
    /\ \E y \in Years : ~HasSummary(Store, y)

\* C27: get_year_summaries returns the stored summary rows, one entry per year
\* that has a row, in strictly descending order of year.
C27_YearSummariesDescending ==
    [][GetYearSummaries
          => LET list == Unwrap(last'.ret)
             IN  /\ last'.status = "Ok"
                 /\ Len(list) = Cardinality({r.year : r \in year_summaries})
                 /\ {list[i] : i \in 1..Len(list)} = year_summaries
                 /\ \A i, j \in 1..Len(list) : i < j => list[i].year > list[j].year
                 /\ Store' = Store]_vars

\* the list holds two years, the later one first, though its contribution was
\* created after the earlier year's
C27_Witness ==
    /\ last.op = "get_year_summaries"
    /\ Len(Unwrap(last.ret)) = 2
    /\ Unwrap(last.ret)[1].year = 2025
    /\ \E r, q \in contributions :
           r.id = 1 /\ r.recorded_year = 2024 /\ q.id = 2 /\ q.recorded_year = 2025

\* every contribution of member m has a whole-number amount
WholeAmounts(s, m) == \A c \in s.contributions : c.member_id = m.id => c.amount % 100 = 0

\* C28: get_members_by_type_with_total(category) returns one entry for each stored
\* member of that category and no other entry, members with no contribution
\* included; when a member's contributions all have whole-number amounts, its entry's
\* total_contributions is the decimal text of the sum of these amounts over all
\* years ("0" when it has none).
C28_MembersWithTotal ==
    [][\A member_type \in TypeInputs :
          Return(get_members_by_type_with_total(Store, member_type),
                 "get_members_by_type_with_total", 0)
              => LET list == Unwrap(last'.ret)
                     of   == {m \in members : m.member_type = member_type}
                 IN  /\ last'.status = "Ok"
                     /\ Len(list) = Cardinality(of)
                     /\ \A m \in of :
                           \E i \in 1..Len(list) :
                               /\ list[i].id = m.id
                               /\ list[i].card_number = m.card_number
                               /\ list[i].full_name = m.full_name
                               /\ WholeAmounts(Store, m)
                                     => list[i].total_contributions =
                                            Digits(SumOfMember(Store, m) \div 100)
                               /\ SumOfMember(Store, m) = 0
                                     => list[i].total_contributions = <<"0">>
                     /\ Store' = Store]_vars

\* the list holds one member whose total "2" is the sum of two contributions of 1,
\* one in each year, while the other stored member has no contribution
C28_Witness ==
    /\ last.op = "get_members_by_type_with_total"
    /\ Len(Unwrap(last.ret)) = 1
    /\ Unwrap(last.ret)[1].total_contributions = <<"2">>
    /\ Cardinality(members) = 2
    /\ \E r, q \in contributions :
           /\ r.recorded_year = 2024 /\ q.recorded_year = 2025
           /\ r.amount = 100 /\ q.amount = 100

\* the last call to return was a check_and_close_previous_year that succeeded
CheckSucceeded ==
    /\ last.op = "check_and_close_previous_year"
    /\ last.status = "Ok"

\* C29: the auto-close task checks at start and after every 24-hour sleep, for
\* ever, whether or not a check fails: it is at a check infinitely often, every
\* sleep that ends leads to a check, and every check to a sleep; and if a check
\* ever succeeds, the previous year's summary is closed from then on (no
\* reopen_year being called).
C29_AutoCloseLoop ==
    /\ conns[1].pc = "check"
    /\ []<>(conns[1].pc = "check")
    /\ []<>(conns[1].pc = "sleep")
    /\ [][conns[1].pc = "check" => conns'[1].pc \in {"check", "sleep"}]_vars
    /\ [](CheckSucceeded => PreviousYearClosed(Store))
    /\ (<>CheckSucceeded) => <>[]PreviousYearClosed(Store)

\* on the second day a check has closed the year, which the check at start had not
C29_Witness ==
    /\ last.op = "check_and_close_previous_year"
    /\ last.status = "Ok"
    /\ IsSome(last.ret)
    /\ Unwrap(last.ret).closed_at = Some(2)
    /\ Unwrap(last.ret).total = 150
    /\ conns[1].row = last.ret

\* C30: whenever check_and_close_previous_year returns Some(summary), the total in
\* the summary's note is the integer part of summary.total: the note is the one
\* built from the total the summary holds.
C30_NoteTotalIsStoredTotal ==
    (/\ last.op = "check_and_close_previous_year"
     /\ last.status = "Ok"
     /\ IsSome(last.ret))
        => Unwrap(last.ret).note =
               Some(AutoCloseNote(last.year, Unwrap(last.ret).total))


\* the step is the task's check_and_close_previous_year returning Ok
TaskCheckReturnsOk ==
    /\ conns[1].pc = "check"
    /\ conns'[1].pc = "sleep"
    /\ last'.op = "check_and_close_previous_year"
    /\ last'.status = "Ok"

\* C31 as claimed: check_and_close_previous_year returns Some(summary) at most
\* once, whatever repository operations (reopen_year of the previous year
\* included) run in between: once the task has been handed a summary (its toast is
\* set), every later check returns None.
C31_SomeAtMostOnce ==
    [][(TaskCheckReturnsOk /\ IsSome(conns[1].row)) => last'.ret = None]_vars

\* C31 as amended: a check that returns Some leaves the previous year closed, a
\* check on a closed year returns None and writes nothing, and only a successful
\* reopen_year of that year opens a closed year again; so two checks that return
\* Some have a reopen_year of the previous year between them.
C31_SomeOncePerReopen ==
    [][/\ (TaskCheckReturnsOk /\ IsSome(last'.ret)) => PreviousYearClosed(Store')
       /\ (TaskCheckReturnsOk /\ PreviousYearClosed(Store))
              => (last'.ret = None /\ Store' = Store)
       /\ (PreviousYearClosed(Store) /\ ~PreviousYearClosed(Store'))
              => /\ last'.op = "reopen_year"
                 /\ last'.status = "Ok"
                 /\ last'.year = CurrentYear - 1]_vars

\* a day after the check that closed the year, the next check returned None
C31_Witness ==
    /\ last.op = "check_and_close_previous_year"
    /\ last.status = "Ok"
    /\ last.ret = None
    /\ now = 2
    /\ conns[1].pc = "sleep"
    /\ IsSome(conns[1].row)
    /\ Unwrap(conns[1].row).closed_at = Some(1)
    /\ GetYearSummary(Store, CurrentYear - 1) = conns[1].row

\* the step is close_year(year, note) returning
IsCloseYear(year, note) ==
    Return(close_year(Store, year, note, now), "close_year", year)

\* C32: close_year(Y, note) never returns the "summary not found" error; it
\* succeeds, and on a year with no summary row and no contribution it creates the
\* row with total 0, closed_at set and the note supplied, and returns it.
C32_CloseYearCreatesRow ==
    [][\A year \in Years, note \in NoteInputs :
          IsCloseYear(year, note)
             => /\ last'.status = "Ok"
                /\ (SummaryRows(Store, year) = {} /\ ContributionsOfYear(Store, year) = {})
                      => LET row == [year |-> year, total |-> 0,
                                     closed_at |-> Some(now), note |-> note]
                         IN  /\ last'.ret = Some(row)
                             /\ year_summaries' = year_summaries \cup {row}
                             /\ members' = members
                             /\ contributions' = contributions]_vars

\* close_year(2024, Some("ok")) on an empty database made the only summary row
C32_Witness ==
    /\ last.op = "close_year"
    /\ last.status = "Ok"
    /\ contributions = {}
    /\ year_summaries = {[year |-> 2024, total |-> 0, closed_at |-> Some(1),
                          note |-> Some(<<"ok">>)]}
    /\ last.ret = Some([year |-> 2024, total |-> 0, closed_at |-> Some(1),
                        note |-> Some(<<"ok">>)])

\* C33: every stored member has member_type "Communiant" or "Cathekomen" and
\* gender "M" or "F", whatever text create_member, update_member and
\* transfer_members were called with.
C33_EnumeratedColumns ==
    \A m \in members :
        /\ m.member_type \in {"Communiant", "Cathekomen"}
        /\ m.gender \in {"M", "F"}

\* C34: a successful transfer_members changes nothing but the member_type of the
\* members named in ids: those members keep every other field, the members not
\* named are as they were, no member appears or disappears, and every contribution
\* (its member_id included) and every year summary is unchanged.
C34_TransferFrame ==
    [][\A ids \in SUBSET (1..MaxMemberId), new_type \in TypeInputs :
          (IsTransfer(ids, new_type) /\ last'.status = "Ok")
              => /\ {m.id : m \in members'} = {m.id : m \in members}
                 /\ Cardinality(members') = Cardinality(members)
                 /\ \A m \in members : \E m2 \in members' :
                        /\ m2.id = m.id
                        /\ [m2 EXCEPT !.member_type = m.member_type] = m
                        /\ m.id \notin ids => m2 = m
                 /\ contributions' = contributions
                 /\ year_summaries' = year_summaries]_vars

\* Alice, created a Communiant, has been transferred to Cathekomen while she has a
\* contribution and its year a summary, and the other member is still a Communiant
C34_Witness ==
    /\ last.op = "transfer_members"
    /\ last.status = "Ok"
    /\ last.n = 1
    /\ \E m \in members :
          /\ m.full_name = "Alice" /\ m.member_type = "Cathekomen"
          /\ \E c \in contributions : c.member_id = m.id /\ HasSummary(Store, c.recorded_year)
    /\ \E m \in members : m.full_name # "Alice" /\ m.member_type = "Communiant"

\* C35: close_year, reopen_year and check_and_close_previous_year leave every
\* member and every contribution as they were, and the summary rows of every year
\* but the one they are about: none of those is added, removed or changed.
C35_YearCallsFrame ==
    [][last'.op \in {"close_year", "reopen_year", "check_and_close_previous_year"}
          => /\ members' = members
             /\ contributions' = contributions
             /\ {r \in year_summaries' : r.year # last'.year}
                   = {r \in year_summaries : r.year # last'.year}]_vars

\* check_and_close_previous_year has closed 2025 with its two contributions while
\* 2024, closed by hand with a note, stays as it was
C35_Witness ==
    /\ last.op = "check_and_close_previous_year"
    /\ last.status = "Ok"
    /\ IsSome(last.ret)
    /\ Unwrap(last.ret).total = 300
    /\ Cardinality(contributions) = 2
    /\ \E r \in SummaryRows(Store, 2024) :
           IsSome(r.closed_at) /\ r.note = Some(<<"ok">>) /\ r.total = 0


\* C36: close_year(Y, note) on a year already closed is not refused: it returns
\* Ok, and the stored summary of Y, which is the one returned, has the total
\* recomputed from the year's contributions, closed_at set to the time of this call
\* and the note of this call (no note when None is passed), whatever they were.
C36_CloseClosedYear ==
    [][\A year \in Years, note \in NoteInputs :
          (IsCloseYear(year, note) /\ YearClosed(Store, year))
              => /\ last'.status = "Ok"
                 /\ last'.ret = Some([year |-> year,
                                      total |-> SumAmounts(ContributionsOfYear(Store, year)),
                                      closed_at |-> Some(now), note |-> note])
                 /\ SummaryRows(Store', year) = {Unwrap(last'.ret)}]_vars

\* the task closed 2025 on day 1 with total 0 and its own note; on day 2, after a
\* contribution, close_year(2025, None) has left total 1.50, closed_at day 2, no note
C36_Witness ==
    /\ IsSome(conns[1].row)
    /\ Unwrap(conns[1].row).closed_at = Some(1)
    /\ Unwrap(conns[1].row).total = 0
    /\ IsSome(Unwrap(conns[1].row).note)
    /\ last.op = "close_year"
    /\ last.status = "Ok"
    /\ last.ret = Some([year |-> 2025, total |-> 150, closed_at |-> Some(2),
                        note |-> None])
    /\ SummaryRows(Store, 2025) = {Unwrap(last.ret)}

\* C37: no operation removes a year_summaries row: a year that has a summary has
\* one after every step; and when a successful delete_contribution leaves its year
\* with no contribution, the year's row is the one it had with total 0, its
\* closed_at and note unchanged.
C37_SummaryRowsStay ==
    [][/\ \A r \in year_summaries : HasSummary(Store', r.year)
       /\ (/\ last'.op = "delete_contribution"
           /\ last'.status = "Ok"
           /\ contributions' # contributions
           /\ ContributionsOfYear(Store', last'.year) = {})
              => \E r \in SummaryRows(Store, last'.year) :
                     SummaryRows(Store', last'.year) = {[r EXCEPT !.total = 0]}]_vars

\* the only contribution of 2025, a year closed with a note, has been deleted: the
\* row is still closed with its note, and its total is 0
C37_Witness ==
    /\ last.op = "delete_contribution"
    /\ last.status = "Ok"
    /\ last.year = 2025
    /\ contributions = {}
    /\ \E r \in SummaryRows(Store, 2025) :
           r.total = 0 /\ IsSome(r.closed_at) /\ r.note = Some(<<"ok">>)

\* the ids of the entries of a list
IdsOf(list) == {list[i].id : i \in 1..Len(list)}

\* C38: for every year Y, when get_contributions_by_year(Y) or
\* get_contributions_by_year_with_member(Y) returns, its list holds the contributions
\* recorded for Y in the state it returns in,
\* each once: the same ids in both (the join on members drops none); the first
\* list has its payment dates descending, the second ascending, and each entry of
\* the second carries as member_name the full_name its member has now.
C38_ContributionListsAgree ==
    /\ last.op = "get_contributions_by_year"
          => LET list == Unwrap(last.ret)
                 rows == ContributionsOfYear(Store, last.year)
             IN  /\ last.status = "Ok"
                 /\ {list[i] : i \in 1..Len(list)} = rows
                 /\ Len(list) = Cardinality(rows)
                 /\ \A i, j \in 1..Len(list) :
                        i < j => DateRank(list[i].payment_date)
                                    >= DateRank(list[j].payment_date)
                 /\ \A r \in get_contributions_by_year_with_member(Store, last.year) :
                        IdsOf(Unwrap(r.ret)) = IdsOf(list)
    /\ last.op = "get_contributions_by_year_with_member"
          => LET list == Unwrap(last.ret)
                 rows == ContributionsOfYear(Store, last.year)
             IN  /\ last.status = "Ok"
                 /\ IdsOf(list) = {c.id : c \in rows}
                 /\ Len(list) = Cardinality(rows)
                 /\ \A i, j \in 1..Len(list) :
                        i < j => DateRank(list[i].payment_date)
                                    <= DateRank(list[j].payment_date)
                 /\ \A i \in 1..Len(list) :
                        \E c \in rows, m \in members :
                            /\ c.id = list[i].id
                            /\ m.id = c.member_id
                            /\ list[i].member_id = c.member_id
                            /\ list[i].member_name = m.full_name
                            /\ list[i].payment_date = c.payment_date
                            /\ list[i].amount = c.amount
                 /\ \A r \in get_contributions_by_year(Store, last.year) :
                        IdsOf(Unwrap(r.ret)) = IdsOf(list)

\* the list of 2025 with member names holds two contributions of two members, the
\* one created second first because its payment date is the earlier
C38_Witness ==
    /\ last.op = "get_contributions_by_year_with_member"
    /\ last.year = 2025
    /\ Len(Unwrap(last.ret)) = 2
    /\ Unwrap(last.ret)[1].id = 2
    /\ Unwrap(last.ret)[1].payment_date = "2025-01-10"
    /\ Unwrap(last.ret)[1].member_name = "Bob"
    /\ Unwrap(last.ret)[2].id = 1
    /\ Unwrap(last.ret)[2].payment_date = "2025-06-01"
    /\ Unwrap(last.ret)[2].member_name = "Alice"

\* C39: the same calls of create_member, update_member, delete_member,
\* create_contribution, delete_contribution, close_year and reopen_year, made one
\* at a time on db/repo.rs and on db.rs from an empty database, return the same
\* results and leave the same members, contributions and year summaries (both read
\* the same clock); a call one of them refuses, the other refuses alike.
C39_DbRsAgrees ==
    /\ conns[2].work = Store
    /\ last.op # "none" => conns[2].row = Some(last)

\* both have deleted the only contribution of 2025, a year closed with a note, and
\* hold one member and the row of 2025 with total 0
C39_Witness ==
    /\ last.op = "delete_contribution"
    /\ last.status = "Ok"
    /\ Cardinality(conns[2].work.members) = 1
    /\ conns[2].work.contributions = {}
    /\ \E r \in conns[2].work.year_summaries :
           r.year = 2025 /\ r.total = 0 /\ IsSome(r.closed_at) /\ r.note = Some(<<"ok">>)
    /\ Unwrap(conns[2].row).status = "Ok"
====
